---------------------------- MODULE Spec2Model ----------------------------
(***************************************************************************)
(* Persistence layer (database.Impl over gorm) and the permission and      *)
(* payment event handlers of the indexer.                                  *)
(*                                                                         *)
(* A table is a sequence of rows (a row's position is its surrogate id),   *)
(* a row is a record from column names to values, and the store is a       *)
(* function from table names to tables.                                    *)
(***************************************************************************)
EXTENDS Integers, Sequences, FiniteSets, TLC

VARIABLES
    dialect,    \* the SQL backend selected by databaseconfig.Config
    db,         \* the committed store: table name -> sequence of rows
    last,       \* the operation that ran last: its name, input and results
    pc,         \* caller -> the StoreLastPruned call it is in the middle of, if any
    modules     \* parser.Context.Modules: the registered modules, in order

vars == <<dialect, db, last, pc, modules>>

(***************************************************************************)
(* Bounds of the model.                                                    *)
(***************************************************************************)
MaxStatementRows == 2
MaxKey == 2
\* The most rows a table of the store specification holds.
MaxRows == 2
\* The most modules a registry holds and the most events a block emits.
MaxModules == 2
MaxEvents == 3
\* The deepest nesting of Begin on a store handle.
MaxDepth == 2

PolicyIds == {1, 2}
Principals == {1, 2}

(***************************************************************************)
(* Errors.                                                                 *)
(***************************************************************************)
Nil == "nil"
ErrEmptySlice == "empty slice found"
ErrDuplicateKey == "duplicated key not allowed"
ErrServer == "statement failed"
ErrTxAborted == "current transaction is aborted"
ErrCommit == "commit failed"
ErrTxDone == "sql: transaction has already been committed or rolled back"
ErrInvalidTransaction == "invalid transaction"
ErrCanceled == "context canceled"
ErrRecordNotFound == "record not found"
ErrUnknownAction == "unknown action type action"
ErrSavePolicy == "save policy transaction failed"
ErrDeletePolicy == "delete policy transaction failed"

Dialects == {"postgres", "mysql"}

(***************************************************************************)
(* Tables and their unique indexes (an ordered list of column sets).       *)
(***************************************************************************)
Tables ==
    {"blocks", "transaction", "buckets", "objects", "payment_accounts",
     "stream_records", "permission", "statements", "groups", "storage_providers",
     "global_virtual_groups", "local_virtual_groups",
     "global_virtual_group_families", "epoch", "pre_commit", "message", "pruning",
     "partitions"}

EmptyStore == [t \in Tables |-> <<>>]

PermissionKey == {"principal_type", "principal_value", "resource_type", "resource_id"}

UniqueKeys(t) ==
    CASE t = "blocks" -> <<{"height"}, {"hash"}>>
      [] t = "transaction" -> <<{"hash"}, {"height", "tx_index"}>>
      [] t = "buckets" -> <<{"bucket_id"}>>
      [] t = "objects" -> <<{"object_id"}>>
      [] t = "payment_accounts" -> <<{"addr"}>>
      [] t = "stream_records" -> <<{"account"}>>
      [] t = "permission" -> <<PermissionKey>>
      [] t = "statements" -> <<>>
      [] t = "groups" -> <<{"group_id", "account_id"}>>
      [] t = "storage_providers" -> <<{"sp_id"}>>
      [] t = "global_virtual_groups" -> <<{"global_virtual_group_id"}>>
      [] t = "local_virtual_groups" -> <<{"local_virtual_group_id"}>>
      [] t = "global_virtual_group_families" -> <<{"global_virtual_group_family_id"}>>
      [] t = "epoch" -> <<{"one_row_id"}>>
      [] t = "pre_commit" -> <<{"validator_address", "timestamp"}>>
      [] t = "message" -> <<>>
      [] t = "pruning" -> <<>>
      [] t = "partitions" -> <<{"name"}>>

BoolCols == {"removed", "refundable", "success", "one_row_id"}
StrCols == {"resource_type", "effect", "status", "memo", "raw_log"}
SeqCols == {"resources", "messages", "signatures", "signer_infos", "fee", "logs"}

\* The zero value of a Go field, which gorm's Updates(struct) skips.
IsZero(c, v) ==
    IF c \in BoolCols THEN v = FALSE
    ELSE IF c \in StrCols THEN v = ""
    ELSE IF c \in SeqCols THEN v = <<>>
    ELSE v = 0

(***************************************************************************)
(* SQL statements over one table.  Each returns [rows, err]; on an error   *)
(* the statement changes nothing.                                          *)
(***************************************************************************)
Matching(rows, cols, r) ==
    {i \in DOMAIN rows : \A c \in cols : rows[i][c] = r[c]}

\* Row r, stored at position i (0: a new row), duplicates another row on a unique index.
Violates(rows, keys, i, r) ==
    \E k \in DOMAIN keys : \E j \in DOMAIN rows :
        j # i /\ \A c \in keys[k] : rows[j][c] = r[c]

RECURSIVE InsertAll(_, _, _)
InsertAll(rows, batch, keys) ==
    IF batch = <<>> THEN [rows |-> rows, err |-> Nil]
    ELSE IF Violates(rows, keys, 0, Head(batch))
         THEN [rows |-> rows, err |-> ErrDuplicateKey]
         ELSE InsertAll(Append(rows, Head(batch)), Tail(batch), keys)

\* gorm Create without a conflict clause: one INSERT of every row of the batch.
CreateRows(rows, batch, keys) ==
    IF batch = <<>> THEN [rows |-> rows, err |-> ErrEmptySlice]
    ELSE LET r == InsertAll(rows, batch, keys)
         IN  IF r.err # Nil THEN [rows |-> rows, err |-> r.err] ELSE r

\* clause.OnConflict{Columns: columns, UpdateAll: true}
OnConflict(columns) == [columns |-> columns, updateAll |-> TRUE, doUpdates |-> {}]

\* gorm keeps one clause per clause name: of several OnConflict clauses the last stands.
EffectiveConflict(clauses) == clauses[Len(clauses)]

Overwrite(old, r, cols) ==
    [c \in DOMAIN old |-> IF c \in cols THEN r[c] ELSE old[c]]

\* PostgreSQL: INSERT ... ON CONFLICT (target) DO UPDATE SET cols = excluded.cols
UpsertPostgres(rows, r, target, cols, keys) ==
    LET m == Matching(rows, target, r)
    IN  IF m = {}
        THEN IF Violates(rows, keys, 0, r)
             THEN [rows |-> rows, err |-> ErrDuplicateKey]
             ELSE [rows |-> Append(rows, r), err |-> Nil]
        ELSE LET i == CHOOSE i \in m : \A j \in m : i <= j
                 n == Overwrite(rows[i], r, cols)
             IN  IF Violates(rows, keys, i, n)
                 THEN [rows |-> rows, err |-> ErrDuplicateKey]
                 ELSE [rows |-> [rows EXCEPT ![i] = n], err |-> Nil]

\* MySQL: INSERT ... ON DUPLICATE KEY UPDATE cols = VALUES(cols); the first
\* unique index with a duplicate names the one row that is updated.
UpsertMysql(rows, r, cols, keys) ==
    LET hit == {k \in DOMAIN keys : Matching(rows, keys[k], r) # {}}
    IN  IF hit = {}
        THEN [rows |-> Append(rows, r), err |-> Nil]
        ELSE LET k == CHOOSE k \in hit : \A k2 \in hit : k <= k2
                 m == Matching(rows, keys[k], r)
                 i == CHOOSE i \in m : \A j \in m : i <= j
                 n == Overwrite(rows[i], r, cols)
             IN  IF Violates(rows, keys, i, n)
                 THEN [rows |-> rows, err |-> ErrDuplicateKey]
                 ELSE [rows |-> [rows EXCEPT ![i] = n], err |-> Nil]

\* gorm Clauses(OnConflict...).Create(row)
Upsert(rows, r, clauses, keys) ==
    LET c == EffectiveConflict(clauses)
        cols == IF c.updateAll THEN DOMAIN r ELSE c.doUpdates
    IN  IF dialect = "postgres"
        THEN UpsertPostgres(rows, r, c.columns, cols, keys)
        ELSE UpsertMysql(rows, r, cols, keys)

ErrCardinality == "ON CONFLICT DO UPDATE command cannot affect row a second time"

RECURSIVE UpsertAll(_, _, _, _)
UpsertAll(rows, batch, clauses, keys) ==
    IF batch = <<>> THEN [rows |-> rows, err |-> Nil]
    ELSE LET r == Upsert(rows, Head(batch), clauses, keys)
         IN  IF r.err # Nil THEN r ELSE UpsertAll(r.rows, Tail(batch), clauses, keys)

\* gorm Clauses(OnConflict...).Create(batch): one INSERT of every row of the batch.
UpsertBatch(rows, batch, clauses, keys) ==
    LET target == EffectiveConflict(clauses).columns
        r == UpsertAll(rows, batch, clauses, keys)
    IN  IF batch = <<>> THEN [rows |-> rows, err |-> ErrEmptySlice]
        ELSE IF /\ dialect = "postgres"
                /\ \E i, j \in DOMAIN batch :
                       i < j /\ \A c \in target : batch[i][c] = batch[j][c]
        THEN [rows |-> rows, err |-> ErrCardinality]
        ELSE IF r.err # Nil THEN [rows |-> rows, err |-> r.err] ELSE r

\* Updates that inserts the row when none matches.
UpdateWhereOrInsert(rows, cols, r, keys) ==
    LET m == Matching(rows, cols, r)
    IN  IF m = {} THEN [rows |-> Append(rows, r), err |-> Nil]
        ELSE [rows |-> [i \in DOMAIN rows |->
                          IF i \in m
                          THEN [c \in DOMAIN rows[i] |->
                                  IF c \in DOMAIN r /\ ~IsZero(c, r[c]) THEN r[c]
                                  ELSE rows[i][c]]
                          ELSE rows[i]],
              err |-> Nil]

\* gorm Where(cols = r.cols).Updates(r): sets the non-zero fields of r on the matching rows.
UpdateWhere(rows, cols, r, keys) ==
    LET m == Matching(rows, cols, r)
        n == [i \in DOMAIN rows |->
                IF i \in m
                THEN [c \in DOMAIN rows[i] |->
                        IF c \in DOMAIN r /\ ~IsZero(c, r[c]) THEN r[c] ELSE rows[i][c]]
                ELSE rows[i]]
    IN  IF \E i \in m : Violates(n, keys, i, n[i])
        THEN [rows |-> rows, err |-> ErrDuplicateKey]
        ELSE [rows |-> n, err |-> Nil]

\* gorm Where(col = v).Update(col2, v2): sets one column on the matching rows.
UpdateColumnWhere(rows, col, v, col2, v2) ==
    [rows |-> [i \in DOMAIN rows |->
                  IF rows[i][col] = v THEN [rows[i] EXCEPT ![col2] = v2] ELSE rows[i]],
     err |-> Nil]

(***************************************************************************)
(* Store handles (database.Impl) and the transaction they may be bound to. *)
(***************************************************************************)
Faults == {"none", "fail"}
CommitFaults == {"none", "fail"}

\* The handle the modules are built with.
OuterHandle(store) ==
    [tables |-> store, status |-> "auto", aborted |-> FALSE, enc |-> TRUE,
     error |-> Nil, ctx |-> "live"]

\* gorm AddError on the handle itself: the first error stays in front.
AddError(h, err) ==
    IF h.error = Nil THEN [h EXCEPT !.error = err]
    ELSE [h EXCEPT !.error = h.error \o "; " \o err]

\* db.Db.WithContext(ctx): the statements of the returned handle run under ctx.
WithContext(h, ctx) == [h EXCEPT !.ctx = ctx]

\* The error with which database/sql answers a statement on h without
\* running it, Nil if none: a context that is done, a transaction that is
\* finished, a PostgreSQL transaction a failed statement has aborted.
Unsendable(h) ==
    IF h.ctx = "cancelled" THEN ErrCanceled
    ELSE IF h.status \in {"committed", "rolledback"} THEN ErrTxDone
    ELSE IF h.aborted THEN ErrTxAborted
    ELSE Nil

\* The error with which a query on h returns without reading, Nil if none:
\* the error the handle carries, else the one of database/sql.
Refused(h) == IF h.error # Nil THEN h.error ELSE Unsendable(h)

\* A statement on handle h against table t with SQL outcome res.  A handle
\* that carries an error runs nothing.  Outside a transaction gorm begins
\* one for the statement, which a context that is done refuses, and then
\* rejects an empty batch before anything is sent.  A statement the backend
\* fails leaves a PostgreSQL transaction aborted and a MySQL transaction
\* usable.
Exec(h, t, res, fault) ==
    IF h.error # Nil THEN [h |-> h, err |-> h.error]
    ELSE IF res.err = ErrEmptySlice /\ h.status = "auto" /\ h.ctx = "cancelled"
    THEN [h |-> h, err |-> ErrCanceled]
    ELSE IF res.err = ErrEmptySlice THEN [h |-> h, err |-> res.err]
    ELSE IF Unsendable(h) # Nil THEN [h |-> h, err |-> Unsendable(h)]
    ELSE IF fault = "fail" \/ res.err # Nil
    THEN [h |-> [h EXCEPT !.aborted = (h.status = "open" /\ dialect = "postgres")],
          err |-> IF fault = "fail" THEN ErrServer ELSE res.err]
    ELSE [h |-> [h EXCEPT !.tables[t] = res.rows], err |-> Nil]

\* Begin returns an Impl with the gorm transaction only; the new handle
\* carries the error of the handle it starts from.  Under a context that is
\* done no transaction starts: the handle carries the context's error and
\* its status is "failed", neither the pool nor a transaction.  gorm cannot
\* begin a transaction on a handle that is not the pool: the new handle
\* stays where h is and carries ErrInvalidTransaction.
Begin(h) ==
    IF h.status = "auto" /\ h.ctx = "cancelled"
    THEN AddError([h EXCEPT !.enc = FALSE, !.status = "failed"], ErrCanceled)
    ELSE IF h.status = "auto"
    THEN [tables |-> h.tables, status |-> "open", aborted |-> FALSE, enc |-> FALSE,
          error |-> h.error, ctx |-> h.ctx]
    ELSE AddError([h EXCEPT !.enc = FALSE], ErrInvalidTransaction)

\* Commit and Rollback add their error to the handle they are called on and
\* Commit returns the handle's error: ErrInvalidTransaction on a handle that
\* is no transaction, the error of database/sql on a finished one.  Rollback
\* adds nothing on the handle of a Begin that failed.
Commit(h, fault) ==
    IF h.status \in {"auto", "failed"}
    THEN LET g == AddError(h, ErrInvalidTransaction) IN [h |-> g, err |-> g.error]
    ELSE IF h.status # "open"
    THEN LET g == AddError(h, ErrTxDone) IN [h |-> g, err |-> g.error]
    ELSE IF h.aborted \/ fault = "fail"
    THEN LET g == AddError([h EXCEPT !.status = "rolledback"], ErrCommit)
         IN  [h |-> g, err |-> g.error]
    ELSE [h |-> [h EXCEPT !.status = "committed"], err |-> h.error]

Rollback(h) ==
    IF h.status = "auto" THEN AddError(h, ErrInvalidTransaction)
    ELSE IF h.status = "failed" THEN h
    ELSE IF h.status = "open" THEN [h EXCEPT !.status = "rolledback"]
    ELSE AddError(h, ErrTxDone)

\* The committed store once a handler is done with scoped handle h.
Visible(store, h) ==
    IF h.status \in {"committed", "auto"} THEN h.tables ELSE store

(***************************************************************************)
(* Store operations on permissions and statements.                         *)
(***************************************************************************)
SavePermission(h, permission, fault) ==
    Exec(h, "permission",
         Upsert(h.tables["permission"], permission,
                <<OnConflict(PermissionKey)>>,
                UniqueKeys("permission")),
         fault)

\* UpdatePermission without its policy_id condition.
UpdatePermissionAnyPolicy(h, permission, fault) ==
    Exec(h, "permission",
         UpdateWhere(h.tables["permission"], {}, permission, UniqueKeys("permission")),
         fault)

UpdatePermission(h, permission, fault) ==
    Exec(h, "permission",
         UpdateWhere(h.tables["permission"], {"policy_id"}, permission,
                     UniqueKeys("permission")),
         fault)

MultiSaveStatement(h, statements, fault) ==
    Exec(h, "statements",
         CreateRows(h.tables["statements"], statements, UniqueKeys("statements")),
         fault)

\* RemoveStatements deleting the rows instead of marking them.
RemoveStatementsPhysically(h, policyID, fault) ==
    Exec(h, "statements",
         [rows |-> SelectSeq(h.tables["statements"], LAMBDA r : r.policy_id # policyID),
          err |-> Nil],
         fault)

RemoveStatements(h, policyID, fault) ==
    Exec(h, "statements",
         UpdateColumnWhere(h.tables["statements"], "policy_id", policyID, "removed", TRUE),
         fault)

(***************************************************************************)
(* Store operations on the other entity kinds.                             *)
(***************************************************************************)
SaveWith(h, t, row, clauses, fault) ==
    Exec(h, t, Upsert(h.tables[t], row, clauses, UniqueKeys(t)), fault)

UpdateWith(h, t, cols, row, fault) ==
    Exec(h, t, UpdateWhere(h.tables[t], cols, row, UniqueKeys(t)), fault)

SaveBlock(h, block, fault) ==
    SaveWith(h, "blocks", block, <<OnConflict({"hash"}), OnConflict({"height"})>>, fault)

SaveBucket(h, bucket, fault) ==
    SaveWith(h, "buckets", bucket, <<OnConflict({"bucket_id"})>>, fault)

UpdateBucket(h, bucket, fault) ==
    UpdateWith(h, "buckets", {"bucket_id"}, bucket, fault)

SaveObject(h, object, fault) ==
    SaveWith(h, "objects", object, <<OnConflict({"object_id"})>>, fault)

UpdateObject(h, object, fault) ==
    UpdateWith(h, "objects", {"object_id"}, object, fault)

SaveStreamRecord(h, streamRecord, fault) ==
    SaveWith(h, "stream_records", streamRecord, <<OnConflict({"account"})>>, fault)

SavePaymentAccount(h, paymentAccount, fault) ==
    SaveWith(h, "payment_accounts", paymentAccount, <<OnConflict({"addr"})>>, fault)

SaveEpoch(h, epoch, fault) ==
    SaveWith(h, "epoch", epoch,
             <<[columns |-> {"one_row_id"}, updateAll |-> FALSE,
                doUpdates |-> {"block_height", "block_hash", "update_time"}]>>,
             fault)

CreateGroup(h, groupMembers, fault) ==
    Exec(h, "groups",
         UpsertBatch(h.tables["groups"], groupMembers,
                     <<OnConflict({"group_id", "account_id"})>>, UniqueKeys("groups")),
         fault)

UpdateGroup(h, group, fault) ==
    UpdateWith(h, "groups", {"group_id", "account_id"}, group, fault)

\* DeleteGroup addresses the rows by group_id alone: every member row of the
\* group receives the non-zero fields of group.
DeleteGroup(h, group, fault) ==
    UpdateWith(h, "groups", {"group_id"}, group, fault)

CreateStorageProvider(h, storageProvider, fault) ==
    SaveWith(h, "storage_providers", storageProvider, <<OnConflict({"sp_id"})>>, fault)

UpdateStorageProvider(h, storageProvider, fault) ==
    UpdateWith(h, "storage_providers", {"sp_id"}, storageProvider, fault)

SaveGVG(h, gvg, fault) ==
    SaveWith(h, "global_virtual_groups", gvg,
             <<OnConflict({"global_virtual_group_id"})>>, fault)

UpdateGVG(h, gvg, fault) ==
    UpdateWith(h, "global_virtual_groups", {"global_virtual_group_id"}, gvg, fault)

SaveLVG(h, lvg, fault) ==
    SaveWith(h, "local_virtual_groups", lvg,
             <<OnConflict({"local_virtual_group_id"})>>, fault)

UpdateLVG(h, lvg, fault) ==
    UpdateWith(h, "local_virtual_groups", {"local_virtual_group_id", "bucket_id"}, lvg, fault)

SaveVGF(h, vgf, fault) ==
    SaveWith(h, "global_virtual_group_families", vgf,
             <<OnConflict({"global_virtual_group_family_id"})>>, fault)

UpdateVGF(h, vgf, fault) ==
    UpdateWith(h, "global_virtual_group_families", {"global_virtual_group_family_id"},
               vgf, fault)

(***************************************************************************)
(* SaveTx: the transaction is encoded, then upserted.                      *)
(***************************************************************************)
ErrMarshal == "marshal failed"
ErrFee == "failed to JSON encode tx fee: marshal failed"
ErrNilPointer == "panic: nil pointer dereference"

\* Values the codec cannot encode.
Unencodable == {"bad"}

MarshalJSON(x) ==
    IF x \in Unencodable THEN [bz |-> <<>>, err |-> ErrMarshal]
    ELSE [bz |-> <<"json", x>>, err |-> Nil]

EncodeToString(sig) == <<"base64", sig>>

\* fmt.Sprintf("[%s]", strings.Join(parts, ","))
JoinArray(parts) == <<"[">> \o parts \o <<"]">>

\* The value of a hexadecimal digit, upper or lower case.
HexDigit(d) ==
    CASE d = "0" -> 0 [] d = "1" -> 1 [] d = "2" -> 2
      [] d \in {"a", "A"} -> 10 [] d \in {"b", "B"} -> 11
      [] OTHER -> 0

RECURSIVE HexToInt(_, _)
HexToInt(digits, acc) ==
    IF digits = <<>> THEN acc
    ELSE HexToInt(Tail(digits), acc * 16 + HexDigit(Head(digits)))

\* common.HexToHash / common.HexToAddress: an optional 0x prefix, then the digits.
FromHex(str) ==
    IF Len(str) >= 2 /\ str[1] = "0" /\ str[2] \in {"x", "X"}
    THEN HexToInt(SubSeq(str, 3, Len(str)), 0)
    ELSE HexToInt(str, 0)

\* The first error of a sequence of marshalling results.
FirstErr(results) ==
    IF \A i \in DOMAIN results : results[i].err = Nil THEN Nil
    ELSE LET i == CHOOSE i \in DOMAIN results :
                      /\ results[i].err # Nil
                      /\ \A j \in 1..(i - 1) : results[j].err = Nil
         IN  results[i].err

\* SaveTx storing the transaction although its logs could not be encoded.
SaveTxIgnoringLogsError(h, blockTimestamp, index, tx, fault) ==
    LET sigs == [i \in DOMAIN tx.signatures |-> EncodeToString(tx.signatures[i])]
        msgs == [i \in DOMAIN tx.messages |-> MarshalJSON(tx.messages[i])]
        fee == MarshalJSON(tx.fee)
        sigInfos == [i \in DOMAIN tx.signer_infos |-> MarshalJSON(tx.signer_infos[i])]
        logs == MarshalJSON(tx.logs)
        dbTx == [hash |-> FromHex(tx.tx_hash),
                 height |-> tx.height,
                 tx_index |-> index,
                 success |-> (tx.code = 0),
                 messages |-> JoinArray([i \in DOMAIN msgs |-> msgs[i].bz]),
                 memo |-> tx.memo,
                 signatures |-> sigs,
                 signer_infos |-> JoinArray([i \in DOMAIN sigInfos |-> sigInfos[i].bz]),
                 fee |-> fee.bz,
                 gas_wanted |-> tx.gas_wanted,
                 gas_used |-> tx.gas_used,
                 raw_log |-> tx.raw_log,
                 logs |-> logs.bz,
                 timestamp |-> blockTimestamp]
    IN  IF ~h.enc THEN [h |-> h, err |-> ErrNilPointer]
        ELSE IF FirstErr(msgs) # Nil THEN [h |-> h, err |-> FirstErr(msgs)]
        ELSE IF fee.err # Nil THEN [h |-> h, err |-> ErrFee]
        ELSE IF FirstErr(sigInfos) # Nil THEN [h |-> h, err |-> FirstErr(sigInfos)]
        ELSE SaveWith(h, "transaction", dbTx,
                      <<OnConflict({"hash"}), OnConflict({"height", "tx_index"})>>, fault)

SaveTx(h, blockTimestamp, index, tx, fault) ==
    LET sigs == [i \in DOMAIN tx.signatures |-> EncodeToString(tx.signatures[i])]
        msgs == [i \in DOMAIN tx.messages |-> MarshalJSON(tx.messages[i])]
        fee == MarshalJSON(tx.fee)
        sigInfos == [i \in DOMAIN tx.signer_infos |-> MarshalJSON(tx.signer_infos[i])]
        logs == MarshalJSON(tx.logs)
        dbTx == [hash |-> FromHex(tx.tx_hash),
                 height |-> tx.height,
                 tx_index |-> index,
                 success |-> (tx.code = 0),
                 messages |-> JoinArray([i \in DOMAIN msgs |-> msgs[i].bz]),
                 memo |-> tx.memo,
                 signatures |-> sigs,
                 signer_infos |-> JoinArray([i \in DOMAIN sigInfos |-> sigInfos[i].bz]),
                 fee |-> fee.bz,
                 gas_wanted |-> tx.gas_wanted,
                 gas_used |-> tx.gas_used,
                 raw_log |-> tx.raw_log,
                 logs |-> logs.bz,
                 timestamp |-> blockTimestamp]
    IN  IF ~h.enc THEN [h |-> h, err |-> ErrNilPointer]
        ELSE IF FirstErr(msgs) # Nil THEN [h |-> h, err |-> FirstErr(msgs)]
        ELSE IF fee.err # Nil THEN [h |-> h, err |-> ErrFee]
        ELSE IF FirstErr(sigInfos) # Nil THEN [h |-> h, err |-> FirstErr(sigInfos)]
        ELSE IF logs.err # Nil THEN [h |-> h, err |-> logs.err]
        ELSE SaveWith(h, "transaction", dbTx,
                      <<OnConflict({"hash"}), OnConflict({"height", "tx_index"})>>, fault)

(***************************************************************************)
(* Reads.                                                                  *)
(***************************************************************************)
errIsNotFound(err) == err = ErrRecordNotFound

\* The rows in descending order of a column: Order("col DESC").
RECURSIVE OrderDesc(_, _)
OrderDesc(rows, col) ==
    IF rows = <<>> THEN <<>>
    ELSE LET i == CHOOSE i \in DOMAIN rows : \A j \in DOMAIN rows : rows[j][col] <= rows[i][col]
             rest == [k \in 1..(Len(rows) - 1) |-> IF k < i THEN rows[k] ELSE rows[k + 1]]
         IN  <<rows[i]>> \o OrderDesc(rest, col)

\* The rows in ascending order.  The code orders nothing so: the operator
\* serves the variant GetLastBlockHeightAscending alone.
RECURSIVE OrderAsc(_, _)
OrderAsc(rows, col) ==
    IF rows = <<>> THEN <<>>
    ELSE LET i == CHOOSE i \in DOMAIN rows : \A j \in DOMAIN rows : rows[i][col] <= rows[j][col]
             rest == [k \in 1..(Len(rows) - 1) |-> IF k < i THEN rows[k] ELSE rows[k + 1]]
         IN  <<rows[i]>> \o OrderAsc(rest, col)

\* gorm Take: the first row, or ErrRecordNotFound.
Take(rows, col, zero) ==
    IF rows = <<>> THEN [val |-> zero, err |-> ErrRecordNotFound]
    ELSE [val |-> rows[1][col], err |-> Nil]

\* GetLastBlockHeight reading the lowest height.
GetLastBlockHeightAscending(h) ==
    LET r == Take(OrderAsc(h.tables["blocks"], "height"), "height", 0)
    IN  IF errIsNotFound(r.err) THEN [height |-> 0, err |-> Nil]
        ELSE [height |-> r.val, err |-> r.err]

GetLastBlockHeight(h) ==
    LET r == Take(OrderDesc(h.tables["blocks"], "height"), "height", 0)
    IN  IF Refused(h) # Nil THEN [height |-> 0, err |-> Refused(h)]
        ELSE IF errIsNotFound(r.err) THEN [height |-> 0, err |-> Nil]
        ELSE [height |-> r.val, err |-> r.err]

HasBlock(h, height) ==
    IF Refused(h) # Nil THEN [res |-> FALSE, err |-> Refused(h)]
    ELSE [res |-> \E i \in DOMAIN h.tables["blocks"] :
                     h.tables["blocks"][i].height = height,
          err |-> Nil]

\* The zero models.Object that Find leaves untouched when no row matches.
ZeroObject == [object_id |-> 0, object_name |-> 0, removed |-> FALSE]

\* gorm Find into a struct: the first matching row if any, and never ErrRecordNotFound.
Find(rows, zero) ==
    IF rows = <<>> THEN [val |-> zero, err |-> Nil] ELSE [val |-> rows[1], err |-> Nil]

GetObject(h, objectId) ==
    LET r == Find(SelectSeq(h.tables["objects"],
                            LAMBDA o : o.object_id = objectId /\ o.removed # TRUE),
                  ZeroObject)
    IN  IF Refused(h) # Nil
        THEN [object |-> ZeroObject, isNil |-> TRUE, err |-> Refused(h)]
        ELSE IF r.err # Nil THEN [object |-> ZeroObject, isNil |-> TRUE, err |-> r.err]
        ELSE [object |-> r.val, isNil |-> FALSE, err |-> Nil]

(***************************************************************************)
(* The permission module's event handlers.                                 *)
(***************************************************************************)
EventPutPolicy == "mechain.permission.EventPutPolicy"
EventDeletePolicy == "mechain.permission.EventDeletePolicy"
PolicyEvents == {EventPutPolicy, EventDeletePolicy}

\* actionTypeMap: the bit of each known action type.
actionTypeMap ==
    [a \in {"ACTION_TYPE_ALL", "ACTION_UPDATE_BUCKET_INFO", "ACTION_DELETE_BUCKET",
            "ACTION_CREATE_OBJECT", "ACTION_DELETE_OBJECT", "ACTION_COPY_OBJECT",
            "ACTION_GET_OBJECT", "ACTION_EXECUTE_OBJECT", "ACTION_LIST_OBJECT",
            "ACTION_UPDATE_GROUP_MEMBER", "ACTION_DELETE_GROUP",
            "ACTION_UPDATE_OBJECT_INFO"} |->
        CASE a = "ACTION_TYPE_ALL" -> 0
          [] a = "ACTION_UPDATE_BUCKET_INFO" -> 1
          [] a = "ACTION_DELETE_BUCKET" -> 2
          [] a = "ACTION_CREATE_OBJECT" -> 3
          [] a = "ACTION_DELETE_OBJECT" -> 4
          [] a = "ACTION_COPY_OBJECT" -> 5
          [] a = "ACTION_GET_OBJECT" -> 6
          [] a = "ACTION_EXECUTE_OBJECT" -> 7
          [] a = "ACTION_LIST_OBJECT" -> 8
          [] a = "ACTION_UPDATE_GROUP_MEMBER" -> 9
          [] a = "ACTION_DELETE_GROUP" -> 10
          [] OTHER -> 11]

\* acc | (1 << bit)
BitOr(acc, bit) ==
    IF (acc \div (2 ^ bit)) % 2 = 1 THEN acc ELSE acc + 2 ^ bit

\* The action bitmask with the actions outside actionTypeMap left out.
RECURSIVE ActionValueLenient(_, _)
ActionValueLenient(actions, acc) ==
    IF actions = <<>> THEN acc
    ELSE IF Head(actions) \notin DOMAIN actionTypeMap
    THEN ActionValueLenient(Tail(actions), acc)
    ELSE ActionValueLenient(Tail(actions), BitOr(acc, actionTypeMap[Head(actions)]))

\* The action bitmask of a statement; -1 when an action is not in actionTypeMap.
RECURSIVE ActionValue(_, _)
ActionValue(actions, acc) ==
    IF actions = <<>> THEN acc
    ELSE IF Head(actions) \notin DOMAIN actionTypeMap THEN -1
    ELSE ActionValue(Tail(actions), BitOr(acc, actionTypeMap[Head(actions)]))

PermissionOf(policy, blockTime) ==
    [principal_type |-> policy.principal_type,
     principal_value |-> policy.principal_value,
     resource_type |-> policy.resource_type,
     resource_id |-> policy.resource_id,
     policy_id |-> policy.policy_id,
     create_timestamp |-> blockTime,
     update_timestamp |-> 0,
     expiration_time |-> policy.expiration_time,
     removed |-> FALSE]

StatementOf(policy, statement) ==
    [policy_id |-> policy.policy_id,
     effect |-> statement.effect,
     action_value |-> ActionValue(statement.actions, 0),
     expiration_time |-> statement.expiration_time,
     limit_size |-> statement.limit_size,
     resources |-> statement.resources,
     removed |-> FALSE]

StatementsOf(policy) ==
    [i \in DOMAIN policy.statements |-> StatementOf(policy, policy.statements[i])]

\* The result of a handler: the scoped handle it ends with, the calls it made
\* on the store in order, the three errors it looked at and what it returns.
NoTx(h, ret) ==
    [h |-> h, calls |-> <<>>, err1 |-> Nil, err2 |-> Nil, err3 |-> Nil, ret |-> ret]

\* handlePutPolicy giving up at the first member operation that fails.
handlePutPolicyFailFast(h, policy, blockTime, f1, f2, f3) ==
    LET p == PermissionOf(policy, blockTime)
        statements == StatementsOf(policy)
    IN  IF \E i \in DOMAIN statements : statements[i].action_value = -1
        THEN NoTx(h, ErrUnknownAction)
        ELSE LET tx == Begin(h)
                 r1 == SavePermission(tx, p, f1)
                 r2 == IF r1.err = Nil THEN MultiSaveStatement(r1.h, statements, f2)
                       ELSE [h |-> r1.h, err |-> Nil]
                 r3 == IF r1.err = Nil /\ r2.err = Nil THEN Commit(r2.h, f3)
                       ELSE [h |-> r2.h, err |-> Nil]
                 failed == r1.err # Nil \/ r2.err # Nil \/ r3.err # Nil
             IN  [h |-> IF failed THEN Rollback(r3.h) ELSE r3.h,
                  calls |-> <<"Begin", "SavePermission">>
                            \o (IF r1.err = Nil THEN <<"MultiSaveStatement">> ELSE <<>>)
                            \o (IF r1.err = Nil /\ r2.err = Nil THEN <<"Commit">> ELSE <<>>)
                            \o (IF failed THEN <<"Rollback">> ELSE <<>>),
                  err1 |-> r1.err, err2 |-> r2.err, err3 |-> r3.err,
                  ret |-> IF failed THEN ErrSavePolicy ELSE Nil]

handlePutPolicy(h, policy, blockTime, f1, f2, f3) ==
    LET p == PermissionOf(policy, blockTime)
        statements == StatementsOf(policy)
    IN  IF \E i \in DOMAIN statements : statements[i].action_value = -1
        THEN NoTx(h, ErrUnknownAction)
        ELSE LET tx == Begin(h)
                 r1 == SavePermission(tx, p, f1)
                 r2 == MultiSaveStatement(r1.h, statements, f2)
                 r3 == Commit(r2.h, f3)
                 failed == r1.err # Nil \/ r2.err # Nil \/ r3.err # Nil
             IN  [h |-> IF failed THEN Rollback(r3.h) ELSE r3.h,
                  calls |-> <<"Begin", "SavePermission", "MultiSaveStatement", "Commit">>
                            \o (IF failed THEN <<"Rollback">> ELSE <<>>),
                  err1 |-> r1.err, err2 |-> r2.err, err3 |-> r3.err,
                  ret |-> IF failed THEN ErrSavePolicy ELSE Nil]

handleDeletePolicy(h, event, blockTime, f1, f2, f3) ==
    LET tx == Begin(h)
        r1 == UpdatePermission(tx,
                 [policy_id |-> event.policy_id, removed |-> TRUE,
                  update_timestamp |-> blockTime],
                 f1)
        r2 == RemoveStatements(r1.h, event.policy_id, f2)
        r3 == Commit(r2.h, f3)
        failed == r1.err # Nil \/ r2.err # Nil \/ r3.err # Nil
    IN  [h |-> IF failed THEN Rollback(r3.h) ELSE r3.h,
         calls |-> <<"Begin", "UpdatePermission", "RemoveStatements", "Commit">>
                   \o (IF failed THEN <<"Rollback">> ELSE <<>>),
         err1 |-> r1.err, err2 |-> r2.err, err3 |-> r3.err,
         ret |-> IF failed THEN ErrDeletePolicy ELSE Nil]

\* sdk.ParseTypedEvent: the message registered under the event's type, built
\* from the event's attributes, or an error when they cannot be decoded.
ErrParseTypedEvent == "parse typed event error"
ErrPutPolicyAssert == "put policy event assert error"
ErrDeletePolicyAssert == "cancel delete policy event assert error"
ErrPaymentAccountAssert == "update payment account event assert error"
ErrStreamRecordAssert == "update stream record event assert error"

ParseTypedEvent(event) ==
    IF "malformed" \in DOMAIN event
    THEN [msg |-> event, name |-> "", err |-> ErrParseTypedEvent]
    ELSE [msg |-> event, name |-> event.type, err |-> Nil]

\* What HandleEvent did: the handler's result r, and whether the event was
\* handed to sdk.ParseTypedEvent on the way.
Handled(r, decoded) ==
    [h |-> r.h, calls |-> r.calls, err1 |-> r.err1, err2 |-> r.err2,
     err3 |-> r.err3, ret |-> r.ret, decoded |-> decoded]

\* The permission module's HandleEvent opening its transaction before it
\* looks at the event type.
PermissionHandleEventEager(h, event, blockTime, f1, f2, f3) ==
    IF event.type \notin PolicyEvents
    THEN LET r3 == Commit(Begin(h), f3)
         IN  Handled([h |-> r3.h, calls |-> <<"Begin", "Commit">>, err1 |-> Nil,
                      err2 |-> Nil, err3 |-> r3.err, ret |-> r3.err], FALSE)
    ELSE LET typedEvent == ParseTypedEvent(event)
         IN  IF typedEvent.err # Nil THEN Handled(NoTx(h, typedEvent.err), TRUE)
             ELSE IF event.type = EventPutPolicy
             THEN IF typedEvent.name # EventPutPolicy
                  THEN Handled(NoTx(h, ErrPutPolicyAssert), TRUE)
                  ELSE Handled(handlePutPolicy(h, typedEvent.msg, blockTime, f1, f2, f3),
                               TRUE)
             ELSE IF typedEvent.name # EventDeletePolicy
             THEN Handled(NoTx(h, ErrDeletePolicyAssert), TRUE)
             ELSE Handled(handleDeletePolicy(h, typedEvent.msg, blockTime, f1, f2, f3),
                          TRUE)

\* Module.HandleEvent of the permission module.
PermissionHandleEvent(h, event, blockTime, f1, f2, f3) ==
    IF event.type \notin PolicyEvents THEN Handled(NoTx(h, Nil), FALSE)
    ELSE LET typedEvent == ParseTypedEvent(event)
         IN  IF typedEvent.err # Nil THEN Handled(NoTx(h, typedEvent.err), TRUE)
             ELSE IF event.type = EventPutPolicy
             THEN IF typedEvent.name # EventPutPolicy
                  THEN Handled(NoTx(h, ErrPutPolicyAssert), TRUE)
                  ELSE Handled(handlePutPolicy(h, typedEvent.msg, blockTime, f1, f2, f3),
                               TRUE)
             ELSE IF typedEvent.name # EventDeletePolicy
             THEN Handled(NoTx(h, ErrDeletePolicyAssert), TRUE)
             ELSE Handled(handleDeletePolicy(h, typedEvent.msg, blockTime, f1, f2, f3),
                          TRUE)

(***************************************************************************)
(* The payment module's event handlers.                                    *)
(***************************************************************************)
EventPaymentAccountUpdate == "mechain.payment.EventPaymentAccountUpdate"
EventStreamRecordUpdate == "mechain.payment.EventStreamRecordUpdate"
PaymentEvents == {EventPaymentAccountUpdate, EventStreamRecordUpdate}

handlePaymentAccountUpdate(h, paymentAccountUpdate, blockHeight, blockTime, fault) ==
    LET paymentAccount == [addr |-> paymentAccountUpdate.addr,
                           owner |-> paymentAccountUpdate.owner,
                           refundable |-> paymentAccountUpdate.refundable,
                           update_at |-> blockHeight,
                           update_time |-> blockTime]
        r == SavePaymentAccount(h, paymentAccount, fault)
    IN  [h |-> r.h, calls |-> <<"SavePaymentAccount">>, ret |-> r.err]

handleEventStreamRecordUpdate(h, streamRecordUpdate, fault) ==
    LET streamRecord == [account |-> streamRecordUpdate.account,
                         crud_timestamp |-> streamRecordUpdate.crud_timestamp,
                         netflow_rate |-> streamRecordUpdate.netflow_rate,
                         frozen_netflow_rate |-> streamRecordUpdate.frozen_netflow_rate,
                         static_balance |-> streamRecordUpdate.static_balance,
                         buffer_balance |-> streamRecordUpdate.buffer_balance,
                         lock_balance |-> streamRecordUpdate.lock_balance,
                         status |-> streamRecordUpdate.status,
                         settle_timestamp |-> streamRecordUpdate.settle_timestamp]
        r == SaveStreamRecord(h, streamRecord, fault)
    IN  [h |-> r.h, calls |-> <<"SaveStreamRecord">>, ret |-> r.err]

\* What the payment module's HandleEvent did.
PaymentHandled(r, decoded) ==
    [h |-> r.h, calls |-> r.calls, ret |-> r.ret, decoded |-> decoded]

\* Module.HandleEvent of the payment module.
PaymentHandleEvent(h, event, blockHeight, blockTime, fault) ==
    IF event.type \notin PaymentEvents
    THEN PaymentHandled([h |-> h, calls |-> <<>>, ret |-> Nil], FALSE)
    ELSE LET typedEvent == ParseTypedEvent(event)
             failed(err) == PaymentHandled([h |-> h, calls |-> <<>>, ret |-> err], TRUE)
         IN  IF typedEvent.err # Nil THEN failed(typedEvent.err)
             ELSE IF event.type = EventPaymentAccountUpdate
             THEN IF typedEvent.name # EventPaymentAccountUpdate
                  THEN failed(ErrPaymentAccountAssert)
                  ELSE PaymentHandled(
                           handlePaymentAccountUpdate(h, typedEvent.msg, blockHeight,
                                                      blockTime, fault),
                           TRUE)
             ELSE IF typedEvent.name # EventStreamRecordUpdate
             THEN failed(ErrStreamRecordAssert)
             ELSE PaymentHandled(handleEventStreamRecordUpdate(h, typedEvent.msg, fault),
                                 TRUE)

(***************************************************************************)
(* Inputs of the permission module.                                        *)
(***************************************************************************)
BlockTimes == {100}

AllowStatement ==
    [effect |-> "EFFECT_ALLOW",
     actions |-> <<"ACTION_GET_OBJECT", "ACTION_TYPE_ALL", "ACTION_GET_OBJECT">>,
     expiration_time |-> 0, limit_size |-> 0, resources |-> <<>>]

UnknownActionStatement ==
    [effect |-> "EFFECT_DENY", actions |-> <<"ACTION_UNSPECIFIED">>,
     expiration_time |-> 0, limit_size |-> 0, resources |-> <<>>]

\* Statement lists of 0..MaxStatementRows known statements.
RECURSIVE Repeat(_, _)
Repeat(x, n) == IF n = 0 THEN <<>> ELSE <<x>> \o Repeat(x, n - 1)

StatementLists == {Repeat(AllowStatement, n) : n \in 0..MaxStatementRows}

PutPolicyEvents(principals, lists) ==
    [type : {EventPutPolicy},
     principal_type : {1},
     principal_value : principals,
     resource_type : {"RESOURCE_TYPE_BUCKET"},
     resource_id : {1},
     policy_id : PolicyIds,
     expiration_time : {0},
     statements : lists]

DeletePolicyEvents == [type : {EventDeletePolicy}, policy_id : PolicyIds]

OtherEvents == [type : {"mechain.storage.EventCreateBucket"}]

\* The events with attributes that cannot be decoded.
Malformed(events) ==
    {[f \in DOMAIN e \cup {"malformed"} |-> IF f = "malformed" THEN TRUE ELSE e[f]] :
         e \in events}

NoOp == [op |-> "none"]

\* The two paths that share the store: block processing and an async module.
Callers == {"block", "async"}
NoCalls == [c \in Callers |-> [at |-> "idle", height |-> 0]]

(***************************************************************************)
(* The permission module handling events, one after the other.             *)
(***************************************************************************)
InitPolicy ==
    /\ dialect \in Dialects
    /\ db = EmptyStore
    /\ last = NoOp
    /\ pc = NoCalls
    /\ modules = <<>>

\* One event handled by the permission module, with faults injected into the
\* two member operations and the commit.
HandlePolicyEvent(event, blockTime, f1, f2, f3) ==
    LET r == PermissionHandleEvent(OuterHandle(db), event, blockTime, f1, f2, f3)
        store == Visible(db, r.h)
    IN  /\ Len(store["statements"]) <= MaxStatementRows
        /\ db' = store
        /\ last' = [op |-> "HandleEvent", module |-> "permission", event |-> event,
                    blockTime |-> blockTime, decoded |-> r.decoded,
                    calls |-> r.calls, err1 |-> r.err1, err2 |-> r.err2,
                    err3 |-> r.err3, ret |-> r.ret]
        /\ UNCHANGED <<dialect, pc, modules>>

PutPolicy ==
    \E event \in PutPolicyEvents(Principals, StatementLists), blockTime \in BlockTimes :
        HandlePolicyEvent(event, blockTime, "none", "none", "none")

PutPolicyUnknownAction ==
    \E event \in PutPolicyEvents(Principals, {<<AllowStatement, UnknownActionStatement>>}),
       blockTime \in BlockTimes :
        HandlePolicyEvent(event, blockTime, "none", "none", "none")

DeletePolicy ==
    \E event \in DeletePolicyEvents, blockTime \in BlockTimes :
        HandlePolicyEvent(event, blockTime, "none", "none", "none")

OtherEvent ==
    \E event \in OtherEvents, blockTime \in BlockTimes :
        HandlePolicyEvent(event, blockTime, "none", "none", "none")

\* An event of the module's interest that cannot be decoded.
MalformedPolicyEvent ==
    \E event \in Malformed(PutPolicyEvents({1}, {<<AllowStatement>>})
                               \cup DeletePolicyEvents),
       blockTime \in BlockTimes :
        HandlePolicyEvent(event, blockTime, "none", "none", "none")

NextPolicy ==
    \/ PutPolicy
    \/ PutPolicyUnknownAction
    \/ DeletePolicy
    \/ OtherEvent
    \/ MalformedPolicyEvent

SpecPolicy == InitPolicy /\ [][NextPolicy]_vars

\* The same handlers with a fault injected into any of the three steps.
PutPolicyFaulty ==
    \E event \in PutPolicyEvents({1}, StatementLists), blockTime \in BlockTimes,
       f1 \in Faults, f2 \in Faults, f3 \in CommitFaults :
        HandlePolicyEvent(event, blockTime, f1, f2, f3)

DeletePolicyFaulty ==
    \E event \in DeletePolicyEvents, blockTime \in BlockTimes,
       f1 \in Faults, f2 \in Faults, f3 \in CommitFaults :
        HandlePolicyEvent(event, blockTime, f1, f2, f3)

NextPolicyFaults == PutPolicyFaulty \/ DeletePolicyFaulty

SpecPolicyFaults == InitPolicy /\ [][NextPolicyFaults]_vars

\* The same handlers with a fault injected into the member operations only.
PutPolicyMemberFaults ==
    \E event \in PutPolicyEvents({1}, StatementLists), blockTime \in BlockTimes,
       f1 \in Faults, f2 \in Faults :
        HandlePolicyEvent(event, blockTime, f1, f2, "none")

DeletePolicyMemberFaults ==
    \E event \in DeletePolicyEvents, blockTime \in BlockTimes,
       f1 \in Faults, f2 \in Faults :
        HandlePolicyEvent(event, blockTime, f1, f2, "none")

NextMemberFaults == PutPolicyMemberFaults \/ DeletePolicyMemberFaults

SpecMemberFaults == InitPolicy /\ [][NextMemberFaults]_vars

(***************************************************************************)
(* Properties of the permission handlers.                                  *)
(***************************************************************************)
Range(f) == {f[i] : i \in DOMAIN f}

IsHandled(l, type) == l.op = "HandleEvent" /\ l.event.type = type

RowsOf(rows, policyID) == {i \in DOMAIN rows : rows[i].policy_id = policyID}

\* C1: whenever handlePutPolicy or handleDeletePolicy returns an error, none
\* of the writes issued inside its transaction scope is visible in the store
\* afterwards, whichever of the first write, the second write and the commit
\* failed: the store is as it was before the event.
C1_FailedHandlerLeavesNoWrites ==
    [][(last'.op = "HandleEvent" /\ last'.ret # Nil) => db' = db]_vars

\* C2: a handler that opens a transaction calls Begin first, invokes Commit
\* only if both member operations succeeded, invokes Rollback and not Commit
\* if a member operation failed, invokes Rollback if Commit failed, and never
\* calls Rollback on a transaction that was committed.
C2_CommitOnlyAfterAllSucceeded ==
    (last.op = "HandleEvent" /\ last.calls # <<>>) =>
        LET called == Range(last.calls)
            membersOk == last.err1 = Nil /\ last.err2 = Nil
        IN  /\ last.calls[1] = "Begin"
            /\ "Commit" \in called <=> membersOk
            /\ ~membersOk => "Rollback" \in called /\ "Commit" \notin called
            /\ last.err3 # Nil => "Rollback" \in called
            /\ "Rollback" \in called => ~("Commit" \in called /\ last.err3 = Nil)

\* C3: after a successful delete-policy event for policy id p, the permission
\* rows and the statement rows with policy id p have removed = TRUE, and both
\* tables hold as many rows as before the event.
C3_DeleteIsLogical ==
    [][(IsHandled(last', EventDeletePolicy) /\ last'.ret = Nil) =>
        LET p == last'.event.policy_id
        IN  /\ \A i \in RowsOf(db'["permission"], p) : db'["permission"][i].removed
            /\ \A i \in RowsOf(db'["statements"], p) : db'["statements"][i].removed
            /\ Len(db'["permission"]) = Len(db["permission"])
            /\ Len(db'["statements"]) = Len(db["statements"])
            /\ RowsOf(db'["permission"], p) = RowsOf(db["permission"], p)
            /\ RowsOf(db'["statements"], p) = RowsOf(db["statements"], p)]_vars

\* A successful delete-policy event for a policy that has a permission row and statement rows.
C3_Witness ==
    /\ IsHandled(last, EventDeletePolicy) /\ last.ret = Nil
    /\ \E i \in RowsOf(db["permission"], last.event.policy_id) :
            db["permission"][i].removed
    /\ Cardinality(RowsOf(db["statements"], last.event.policy_id)) >= 2

\* C4: a delete-policy event for policy id p leaves every permission row and
\* every statement row with another policy id unchanged, and changes of the
\* rows with policy id p nothing but the removal mark (and, of the permission
\* row, the update time).
C4_DeleteTouchesOnlyItsPolicy ==
    [][IsHandled(last', EventDeletePolicy) =>
        LET p == last'.event.policy_id
            perm == db["permission"]
            stmt == db["statements"]
        IN  /\ DOMAIN db'["permission"] = DOMAIN perm
            /\ DOMAIN db'["statements"] = DOMAIN stmt
            /\ \A i \in DOMAIN perm :
                   LET marked == [perm[i] EXCEPT !.removed = TRUE,
                                                 !.update_timestamp = last'.blockTime]
                   IN  IF perm[i].policy_id # p THEN db'["permission"][i] = perm[i]
                       ELSE IF last'.ret = Nil THEN db'["permission"][i] = marked
                       ELSE db'["permission"][i] \in {perm[i], marked}
            /\ \A i \in DOMAIN stmt :
                   LET marked == [stmt[i] EXCEPT !.removed = TRUE]
                   IN  IF stmt[i].policy_id # p THEN db'["statements"][i] = stmt[i]
                       ELSE IF last'.ret = Nil THEN db'["statements"][i] = marked
                       ELSE db'["statements"][i] \in {stmt[i], marked}]_vars

\* A successful delete-policy event while another policy's permission and statement are stored.
C4_Witness ==
    /\ IsHandled(last, EventDeletePolicy) /\ last.ret = Nil
    /\ \E i \in DOMAIN db["permission"] :
            db["permission"][i].policy_id = last.event.policy_id
    /\ \E i \in DOMAIN db["permission"] :
            /\ db["permission"][i].policy_id # last.event.policy_id
            /\ ~db["permission"][i].removed
    /\ \E i \in DOMAIN db["statements"] :
            db["statements"][i].policy_id = last.event.policy_id
    /\ \E i \in DOMAIN db["statements"] :
            /\ db["statements"][i].policy_id # last.event.policy_id
            /\ ~db["statements"][i].removed

\* C6 (put-policy): handling the same put-policy event a second time leaves
\* the store with the same rows as handling it once; the policy id has as many
\* statement rows as the event has statements.
C6_ReplayedPutPolicyChangesNothing ==
    [][(/\ IsHandled(last, EventPutPolicy) /\ last.ret = Nil
        /\ IsHandled(last', EventPutPolicy) /\ last'.ret = Nil
        /\ last'.event = last.event /\ last'.blockTime = last.blockTime) =>
        /\ db' = db
        /\ Cardinality(RowsOf(db'["statements"], last'.event.policy_id))
               = Len(last'.event.statements)]_vars

(***************************************************************************)
(* The store operations called one after the other on the outer handle.    *)
(***************************************************************************)
Keys == 1..MaxKey
Attrs == {1, 2}

SaveNames ==
    {"SaveBlock", "SaveTx", "SaveBucket", "SaveObject", "SavePaymentAccount",
     "SaveStreamRecord", "SavePermission", "CreateStorageProvider", "SaveGVG",
     "SaveLVG", "SaveVGF", "SaveEpoch"}

UpdateNames ==
    {"UpdateBucket", "UpdateObject", "UpdatePermission", "UpdateGroup", "DeleteGroup",
     "UpdateStorageProvider", "UpdateGVG", "UpdateLVG", "UpdateVGF"}

\* The operations that write a batch of rows with one statement.
BatchNames == {"CreateGroup", "MultiSaveStatement"}

\* The table an operation works on.
TableOf(name) ==
    CASE name = "SaveBlock" -> "blocks"
      [] name = "SaveTx" -> "transaction"
      [] name \in {"SaveBucket", "UpdateBucket"} -> "buckets"
      [] name \in {"SaveObject", "UpdateObject"} -> "objects"
      [] name = "SavePaymentAccount" -> "payment_accounts"
      [] name = "SaveStreamRecord" -> "stream_records"
      [] name \in {"SavePermission", "UpdatePermission"} -> "permission"
      [] name \in {"CreateGroup", "UpdateGroup", "DeleteGroup"} -> "groups"
      [] name = "MultiSaveStatement" -> "statements"
      [] name \in {"CreateStorageProvider", "UpdateStorageProvider"} -> "storage_providers"
      [] name \in {"SaveGVG", "UpdateGVG"} -> "global_virtual_groups"
      [] name \in {"SaveLVG", "UpdateLVG"} -> "local_virtual_groups"
      [] name \in {"SaveVGF", "UpdateVGF"} -> "global_virtual_group_families"
      [] name = "SaveEpoch" -> "epoch"

\* The columns that make the natural key an Update operation addresses.
NaturalKey(name) ==
    CASE name = "UpdateBucket" -> {"bucket_id"}
      [] name = "UpdateObject" -> {"object_id"}
      [] name = "UpdatePermission" -> {"policy_id"}
      [] name = "UpdateGroup" -> {"group_id", "account_id"}
      [] name = "DeleteGroup" -> {"group_id"}
      [] name = "UpdateStorageProvider" -> {"sp_id"}
      [] name = "UpdateGVG" -> {"global_virtual_group_id"}
      [] name = "UpdateLVG" -> {"local_virtual_group_id", "bucket_id"}
      [] name = "UpdateVGF" -> {"global_virtual_group_family_id"}

TxHashes == {<<"0", "x", "0", "A">>, <<"0", "a">>, <<"0", "B">>}

TxInputs ==
    [tx_hash : TxHashes, height : Keys, code : {0}, messages : {<<"msg">>},
     fee : {"fee"}, signer_infos : {<<"signer">>}, logs : {"logs"},
     signatures : {<<"sig">>}, memo : {""}, gas_wanted : {0}, gas_used : {0},
     raw_log : {""}]

GroupMembers == [group_id : Keys, account_id : Attrs, group_name : {1}]

SaveInputs(name) ==
    CASE name = "SaveBlock" -> [height : Keys, hash : Keys, timestamp : BlockTimes]
      [] name = "SaveTx" -> [blockTimestamp : BlockTimes, index : {0}, tx : TxInputs]
      [] name = "SaveBucket" -> [bucket_id : Keys, bucket_name : Attrs]
      [] name = "SaveObject" -> [object_id : Keys, object_name : Attrs, removed : {FALSE}]
      [] name = "SavePaymentAccount" ->
             [addr : Keys, owner : {1}, refundable : BOOLEAN, update_at : {1},
              update_time : BlockTimes]
      [] name = "SaveStreamRecord" ->
             [account : Keys, crud_timestamp : {1}, netflow_rate : Attrs,
              frozen_netflow_rate : {0}, static_balance : {0}, buffer_balance : {0},
              lock_balance : {0}, status : {"STREAM_ACCOUNT_STATUS_ACTIVE"},
              settle_timestamp : {0}]
      [] name = "SavePermission" ->
             {PermissionOf(e, t) : e \in PutPolicyEvents(Principals, {<<>>}),
                                   t \in BlockTimes}
      [] name = "MultiSaveStatement" ->
             LET row(p) == StatementOf([policy_id |-> p], AllowStatement)
             IN  {<<row(p)>> : p \in PolicyIds} \cup
                 {<<row(p), row(q)>> : p \in PolicyIds, q \in PolicyIds}
      [] name = "CreateGroup" ->
             {<<m>> : m \in GroupMembers} \cup
             {<<m, n>> : m \in GroupMembers, n \in {n \in GroupMembers : n.group_id = 1}}
      [] name = "CreateStorageProvider" -> [sp_id : Keys, endpoint : Attrs]
      [] name = "SaveGVG" -> [global_virtual_group_id : Keys, family_id : Attrs]
      [] name = "SaveLVG" ->
             [local_virtual_group_id : Keys, bucket_id : Attrs, stored_size : {1}]
      [] name = "SaveVGF" -> [global_virtual_group_family_id : Keys, primary_sp_id : Attrs]
      [] name = "SaveEpoch" ->
             [one_row_id : {TRUE}, block_height : Keys, block_hash : Keys,
              update_time : BlockTimes]

\* A partial entity: a field left at its zero value is not supplied.
UpdateInputs(name) ==
    CASE name = "UpdateBucket" -> [bucket_id : Keys, bucket_name : {0} \cup Attrs]
      [] name = "UpdateObject" ->
             [object_id : Keys, object_name : {0} \cup Attrs, removed : BOOLEAN]
      [] name = "UpdatePermission" ->
             [policy_id : PolicyIds, removed : {TRUE}, update_timestamp : BlockTimes]
      [] name = "UpdateGroup" -> [group_id : Keys, account_id : Attrs, group_name : {0, 2}]
      [] name = "DeleteGroup" -> [group_id : Keys, account_id : {0, 1}, group_name : {0, 2}]
      [] name = "UpdateStorageProvider" -> [sp_id : Keys, endpoint : {0} \cup Attrs]
      [] name = "UpdateGVG" -> [global_virtual_group_id : Keys, family_id : {0} \cup Attrs]
      [] name = "UpdateLVG" ->
             [local_virtual_group_id : Keys, bucket_id : Attrs, stored_size : {0, 2}]
      [] name = "UpdateVGF" ->
             [global_virtual_group_family_id : Keys, primary_sp_id : {0} \cup Attrs]

CallSave(name, h, e, fault) ==
    CASE name = "SaveBlock" -> SaveBlock(h, e, fault)
      [] name = "SaveTx" -> SaveTx(h, e.blockTimestamp, e.index, e.tx, fault)
      [] name = "SaveBucket" -> SaveBucket(h, e, fault)
      [] name = "SaveObject" -> SaveObject(h, e, fault)
      [] name = "SavePaymentAccount" -> SavePaymentAccount(h, e, fault)
      [] name = "SaveStreamRecord" -> SaveStreamRecord(h, e, fault)
      [] name = "SavePermission" -> SavePermission(h, e, fault)
      [] name = "CreateGroup" -> CreateGroup(h, e, fault)
      [] name = "MultiSaveStatement" -> MultiSaveStatement(h, e, fault)
      [] name = "CreateStorageProvider" -> CreateStorageProvider(h, e, fault)
      [] name = "SaveGVG" -> SaveGVG(h, e, fault)
      [] name = "SaveLVG" -> SaveLVG(h, e, fault)
      [] name = "SaveVGF" -> SaveVGF(h, e, fault)
      [] name = "SaveEpoch" -> SaveEpoch(h, e, fault)

CallUpdate(name, h, e, fault) ==
    CASE name = "UpdateBucket" -> UpdateBucket(h, e, fault)
      [] name = "UpdateObject" -> UpdateObject(h, e, fault)
      [] name = "UpdatePermission" -> UpdatePermission(h, e, fault)
      [] name = "UpdateGroup" -> UpdateGroup(h, e, fault)
      [] name = "DeleteGroup" -> DeleteGroup(h, e, fault)
      [] name = "UpdateStorageProvider" -> UpdateStorageProvider(h, e, fault)
      [] name = "UpdateGVG" -> UpdateGVG(h, e, fault)
      [] name = "UpdateLVG" -> UpdateLVG(h, e, fault)
      [] name = "UpdateVGF" -> UpdateVGF(h, e, fault)

\* The tables are independent of each other: a run works on one of them.
InFocus(t) == \A u \in Tables \ {t} : db[u] = <<>>

InitStore ==
    /\ dialect \in Dialects
    /\ db = EmptyStore
    /\ last = NoOp
    /\ pc = NoCalls
    /\ modules = <<>>

StoreSave ==
    \E name \in SaveNames \cup BatchNames : \E e \in SaveInputs(name) :
        LET r == CallSave(name, OuterHandle(db), e, "none")
        IN  /\ InFocus(TableOf(name))
            /\ Len(r.h.tables[TableOf(name)]) <= MaxRows
            /\ db' = r.h.tables
            /\ last' = [op |-> name, arg |-> e, err |-> r.err]
            /\ UNCHANGED <<dialect, pc, modules>>

StoreUpdate ==
    \E name \in UpdateNames : \E e \in UpdateInputs(name) :
        LET r == CallUpdate(name, OuterHandle(db), e, "none")
        IN  /\ InFocus(TableOf(name))
            /\ db' = r.h.tables
            /\ last' = [op |-> name, arg |-> e, err |-> r.err]
            /\ UNCHANGED <<dialect, pc, modules>>

ReadLastBlockHeight ==
    LET r == GetLastBlockHeight(OuterHandle(db))
    IN  /\ InFocus("blocks")
        /\ last' = [op |-> "GetLastBlockHeight", height |-> r.height, err |-> r.err]
        /\ UNCHANGED <<dialect, db, pc, modules>>

ReadHasBlock ==
    \E height \in Keys :
        LET r == HasBlock(OuterHandle(db), height)
        IN  /\ InFocus("blocks")
            /\ last' = [op |-> "HasBlock", arg |-> height, res |-> r.res, err |-> r.err]
            /\ UNCHANGED <<dialect, db, pc, modules>>

ReadObject ==
    \E objectId \in Keys :
        LET r == GetObject(OuterHandle(db), objectId)
        IN  /\ InFocus("objects")
            /\ last' = [op |-> "GetObject", arg |-> objectId, object |-> r.object,
                        isNil |-> r.isNil, err |-> r.err]
            /\ UNCHANGED <<dialect, db, pc, modules>>

\* Heights a query range may name: one below and one above the stored keys.
QueryHeights == 0..(MaxKey + 1)

\* SELECT generate_series(a, b)
GenerateSeries(a, b) == [i \in 1..(b - a + 1) |-> a + i - 1]

\* GetMissingHeights with the end of the range left out.
GetMissingHeightsExclusive(h, startHeight, endHeight) ==
    SelectSeq(GenerateSeries(startHeight, endHeight - 1),
              LAMBDA x : \A i \in DOMAIN h.tables["blocks"] :
                             h.tables["blocks"][i].height # x)

\* SELECT generate_series(start, end) EXCEPT SELECT height FROM blocks ORDER BY 1
GetMissingHeights(h, startHeight, endHeight) ==
    SelectSeq(GenerateSeries(startHeight, endHeight),
              LAMBDA x : \A i \in DOMAIN h.tables["blocks"] :
                             h.tables["blocks"][i].height # x)

ReadMissingHeights ==
    \E startHeight \in QueryHeights, endHeight \in QueryHeights :
        LET r == GetMissingHeights(OuterHandle(db), startHeight, endHeight)
        IN  /\ InFocus("blocks")
            /\ last' = [op |-> "GetMissingHeights",
                        arg |-> [startHeight |-> startHeight, endHeight |-> endHeight],
                        res |-> r]
            /\ UNCHANGED <<dialect, db, pc, modules>>

NextStore ==
    \/ StoreSave \/ StoreUpdate \/ ReadLastBlockHeight \/ ReadHasBlock \/ ReadObject
    \/ ReadMissingHeights

SpecStore == InitStore /\ [][NextStore]_vars

(***************************************************************************)
(* Properties of the store operations.                                     *)
(***************************************************************************)
\* C5: for every entity kind's Save operation, calling Save twice in a row
\* with an identical entity value leaves the store as one call leaves it, and
\* neither call returns an error.
C5_SaveTwiceIsSaveOnce ==
    [][last'.op \in SaveNames =>
        /\ last'.err = Nil
        /\ (last.op = last'.op /\ last.arg = last'.arg) => db' = db]_vars

\* C5, the part the code keeps: a Save that follows a successful Save of the
\* identical entity value returns no error and changes nothing.
C5_RepeatedSaveChangesNothing ==
    [][(/\ last'.op \in SaveNames /\ last.op = last'.op
        /\ last.arg = last'.arg /\ last.err = Nil) =>
        last'.err = Nil /\ db' = db]_vars

\* C7: the block table holds at most one row per height and at most one row
\* per hash, and a SaveBlock whose height or whose hash equals that of a
\* stored block succeeds and leaves the new block stored, whichever of the
\* two keys collides.
C7_SaveBlockSupersedesOnEitherKey ==
    [][last'.op = "SaveBlock" =>
        LET old == db["blocks"]
            new == db'["blocks"]
            b == last'.arg
        IN  /\ \A i, j \in DOMAIN new :
                   (new[i].height = new[j].height \/ new[i].hash = new[j].hash) => i = j
            /\ (\E i \in DOMAIN old : old[i].height = b.height \/ old[i].hash = b.hash) =>
                   last'.err = Nil /\ b \in Range(new)]_vars

\* C8: an Update operation whose natural key matches no stored row returns
\* no error and leaves the store unchanged.
C8_UpdateWithoutMatchIsSilent ==
    [][(/\ last'.op \in UpdateNames
        /\ Matching(db[TableOf(last'.op)], NaturalKey(last'.op), last'.arg) = {}) =>
        last'.err = Nil /\ db' = db]_vars

\* An Update that matched none of the rows its table holds.
C8_Witness ==
    /\ last.op \in UpdateNames
    /\ last.err = Nil
    /\ db[TableOf(last.op)] # <<>>
    /\ Matching(db[TableOf(last.op)], NaturalKey(last.op), last.arg) = {}

\* C9: GetObject(id) fails with a NotFound error when no row with that id
\* exists or the row is removed, and returns the stored object with no error
\* exactly when a row with that id that is not removed exists.
C9_GetObjectNotFound ==
    last.op = "GetObject" =>
        LET live == {i \in DOMAIN db["objects"] :
                        /\ db["objects"][i].object_id = last.arg
                        /\ ~db["objects"][i].removed}
        IN  /\ live = {} => last.err = ErrRecordNotFound
            /\ live # {} => /\ last.err = Nil
                            /\ \E i \in live : last.object = db["objects"][i]
            /\ last.err = Nil => live # {}

\* C10: GetLastBlockHeight returns (0, no error) when the block table is
\* empty and otherwise the maximum height among the stored blocks.
C10_LastBlockHeightIsMaximum ==
    last.op = "GetLastBlockHeight" =>
        /\ last.err = Nil
        /\ db["blocks"] = <<>> => last.height = 0
        /\ db["blocks"] # <<>> =>
               /\ \E i \in DOMAIN db["blocks"] : db["blocks"][i].height = last.height
               /\ \A i \in DOMAIN db["blocks"] : db["blocks"][i].height <= last.height

\* The last height read from blocks that were saved in descending height order.
C10_Witness ==
    /\ last.op = "GetLastBlockHeight"
    /\ Len(db["blocks"]) >= 2
    /\ db["blocks"][1].height > db["blocks"][2].height
    /\ last.height = db["blocks"][1].height

\* C11: GetMissingHeights(start, end) returns exactly the heights h with
\* start <= h <= end for which no block is stored, each of them once.
C11_MissingHeightsAreTheDifference ==
    last.op = "GetMissingHeights" =>
        LET stored == {db["blocks"][i].height : i \in DOMAIN db["blocks"]}
        IN  /\ \A x \in 0..(MaxKey + 2) :
                   x \in Range(last.res) <=>
                       /\ last.arg.startHeight <= x
                       /\ x <= last.arg.endHeight
                       /\ x \notin stored
            /\ Cardinality(Range(last.res)) = Len(last.res)

\* A stored height inside the range, a missing height on either side of it,
\* the upper one being the end of the range.
C11_Witness ==
    /\ last.op = "GetMissingHeights"
    /\ \E i \in DOMAIN db["blocks"] :
           /\ last.arg.startHeight < db["blocks"][i].height
           /\ db["blocks"][i].height < last.arg.endHeight
    /\ last.arg.startHeight \in Range(last.res)
    /\ last.arg.endHeight \in Range(last.res)

(***************************************************************************)
(* Commit signatures, partitions and retention.  These operations send     *)
(* PostgreSQL statements as text, so their specification runs on that      *)
(* backend.                                                                *)
(***************************************************************************)
SignatureKey == {"validator_address", "timestamp"}

\* The row SaveCommitSignatures binds for one *types.CommitSig.
SignatureRow(sig) ==
    [validator_address |-> sig.validator_address,
     height |-> sig.height,
     timestamp |-> sig.timestamp,
     voting_power |-> sig.voting_power,
     proposer_priority |-> sig.proposer_priority]

\* INSERT ... VALUES batch ON CONFLICT (target) DO NOTHING: a row that
\* collides on the target with a stored row, or with an earlier row of the
\* batch, is skipped.
RECURSIVE InsertOrIgnore(_, _, _)
InsertOrIgnore(rows, batch, target) ==
    IF batch = <<>> THEN [rows |-> rows, err |-> Nil]
    ELSE IF Matching(rows, target, Head(batch)) # {}
         THEN InsertOrIgnore(rows, Tail(batch), target)
         ELSE InsertOrIgnore(Append(rows, Head(batch)), Tail(batch), target)

\* SaveCommitSignatures without its ON CONFLICT clause.
SaveCommitSignaturesStrict(h, signatures, fault) ==
    IF Len(signatures) = 0 THEN [h |-> h, err |-> Nil]
    ELSE Exec(h, "pre_commit",
              CreateRows(h.tables["pre_commit"],
                         [i \in DOMAIN signatures |-> SignatureRow(signatures[i])],
                         UniqueKeys("pre_commit")),
              fault)

SaveCommitSignatures(h, signatures, fault) ==
    IF Len(signatures) = 0 THEN [h |-> h, err |-> Nil]
    ELSE Exec(h, "pre_commit",
              InsertOrIgnore(h.tables["pre_commit"],
                             [i \in DOMAIN signatures |-> SignatureRow(signatures[i])],
                             SignatureKey),
              fault)

\* fmt.Sprintf("%s_%d", table, partitionID)
PartitionName(table, partitionID) == <<table, "_", partitionID>>

\* CREATE TABLE IF NOT EXISTS name PARTITION OF table FOR VALUES IN (id):
\* the catalog gains the partition unless a table of that name exists.
createPartitionIfNotExists(h, table, partitionID, fault) ==
    LET name == PartitionName(table, partitionID)
        row == [name |-> name, parent |-> table, value |-> partitionID]
        catalog == h.tables["partitions"]
    IN  Exec(h, "partitions",
             [rows |-> IF Matching(catalog, {"name"}, row) # {} THEN catalog
                       ELSE Append(catalog, row),
              err |-> Nil],
             fault)

\* DELETE FROM pre_commit WHERE height = $1
DeleteSignaturesAt(rows, height) ==
    [rows |-> SelectSeq(rows, LAMBDA r : r.height # height), err |-> Nil]

\* DELETE FROM message USING transaction
\* WHERE message.transaction_hash = transaction.hash AND transaction.height = $1
DeleteMessagesAt(messages, transactions, height) ==
    [rows |-> SelectSeq(messages,
                        LAMBDA m : ~\E i \in DOMAIN transactions :
                                       /\ m.transaction_hash = transactions[i].hash
                                       /\ transactions[i].height = height),
     err |-> Nil]

\* Prune runs two statements, each committed by itself, so that the calls
\* of others take effect between them.  at is the position of the call:
\* "idle" before the first statement, "signatures" between the two.  The
\* result is the handle, the position reached ("idle": the call returned)
\* and the error of the statement.

\* Prune that does not report a failure of its second statement.
PruneIgnoringSecondError(h, height, at, fault) ==
    IF at = "idle"
    THEN LET r1 == Exec(h, "pre_commit",
                        DeleteSignaturesAt(h.tables["pre_commit"], height), fault)
         IN  [h |-> r1.h, err |-> r1.err,
              at |-> IF r1.err # Nil THEN "idle" ELSE "signatures"]
    ELSE LET r2 == Exec(h, "message",
                        DeleteMessagesAt(h.tables["message"], h.tables["transaction"],
                                         height),
                        fault)
         IN  [h |-> r2.h, err |-> Nil, at |-> "idle"]

\* Prune deleting the signatures up to the height.
PruneUpTo(h, height, at, fault) ==
    IF at = "idle"
    THEN LET r1 == Exec(h, "pre_commit",
                        [rows |-> SelectSeq(h.tables["pre_commit"],
                                            LAMBDA r : r.height > height),
                         err |-> Nil],
                        fault)
         IN  [h |-> r1.h, err |-> r1.err,
              at |-> IF r1.err # Nil THEN "idle" ELSE "signatures"]
    ELSE LET r2 == Exec(h, "message",
                        DeleteMessagesAt(h.tables["message"], h.tables["transaction"],
                                         height),
                        fault)
         IN  [h |-> r2.h, err |-> r2.err, at |-> "idle"]

Prune(h, height, at, fault) ==
    IF at = "idle"
    THEN LET r1 == Exec(h, "pre_commit",
                        DeleteSignaturesAt(h.tables["pre_commit"], height), fault)
         IN  [h |-> r1.h, err |-> r1.err,
              at |-> IF r1.err # Nil THEN "idle" ELSE "signatures"]
    ELSE LET r2 == Exec(h, "message",
                        DeleteMessagesAt(h.tables["message"], h.tables["transaction"],
                                         height),
                        fault)
         IN  [h |-> r2.h, err |-> r2.err, at |-> "idle"]

\* The row INSERT INTO pruning (last_pruned_height) VALUES ($1) stores.  The
\* statement names this column alone and no other statement of the code
\* names a key of the table.
PruningRow(height) == [last_pruned_height |-> height]

\* DELETE FROM pruning
DeletePruning(h, fault) ==
    Exec(h, "pruning", [rows |-> <<>>, err |-> Nil], fault)

\* INSERT INTO pruning (last_pruned_height) VALUES ($1): a plain insert, with
\* no conflict clause.
InsertPruning(h, height, fault) ==
    Exec(h, "pruning",
         [rows |-> Append(h.tables["pruning"], PruningRow(height)), err |-> Nil], fault)

StoreLastPruned(h, height, f1, f2) ==
    LET r1 == DeletePruning(h, f1)
    IN  IF r1.err # Nil THEN r1 ELSE InsertPruning(r1.h, height, f2)

\* The greatest of a non-empty set of integers.
Max(S) == CHOOSE x \in S : \A y \in S : y <= x

\* GetLastPruned reading with Take semantics: no row is an error.
GetLastPrunedOrNotFound(h) ==
    LET rows == h.tables["pruning"]
    IN  IF rows = <<>> THEN [height |-> 0, err |-> ErrRecordNotFound]
        ELSE [height |-> Max({rows[i].last_pruned_height : i \in DOMAIN rows}),
              err |-> Nil]

\* SELECT coalesce(MAX(last_pruned_height),0) FROM pruning LIMIT 1
GetLastPruned(h) ==
    LET rows == h.tables["pruning"]
    IN  IF Refused(h) # Nil THEN [height |-> 0, err |-> Refused(h)]
        ELSE IF rows = <<>> THEN [height |-> 0, err |-> Nil]
        ELSE [height |-> Max({rows[i].last_pruned_height : i \in DOMAIN rows}),
              err |-> Nil]

(***************************************************************************)
(* Inputs and actions of the retention specification.  A run stays in one  *)
(* area: the operations of different areas touch disjoint tables.          *)
(***************************************************************************)
Signatures ==
    [validator_address : Attrs, height : Keys, timestamp : BlockTimes,
     voting_power : Attrs, proposer_priority : {0}]

\* The empty batch, every batch of one signature and the batches of two.
SignatureBatches ==
    {<<>>} \cup {<<a>> : a \in Signatures}
           \cup {<<a, b>> : a \in {x \in Signatures : x.voting_power = 1},
                            b \in {x \in Signatures : x.voting_power = 2}}

\* Two indexed transactions and the message rows that point at them.
IndexedTxs ==
    {[blockTimestamp |-> t, index |-> 0,
      tx |-> [tx_hash |-> x.tx_hash, height |-> x.height, code |-> 0,
              messages |-> <<"msg">>, fee |-> "fee", signer_infos |-> <<"signer">>,
              logs |-> "logs", signatures |-> <<"sig">>, memo |-> "",
              gas_wanted |-> 0, gas_used |-> 0, raw_log |-> ""]] :
        t \in BlockTimes,
        x \in {[tx_hash |-> <<"0", "a">>, height |-> 1],
                [tx_hash |-> <<"0", "B">>, height |-> 2]}}

MessageRow(hash) == [transaction_hash |-> hash, index |-> 0]

\* The transaction hashes message rows carry: those of the two indexed
\* transactions and one of no stored transaction.
MessageHashes == {10, 11, 1}

\* The signatures stored while blocks are being pruned.
IndexedSignatures ==
    {a \in Signatures : a.voting_power = 1 /\ a.validator_address = a.height}

AreaOf(op) ==
    CASE op \in {"SaveCommitSignatures", "createPartitionIfNotExists"} -> "signatures"
      [] op \in {"IndexTx", "IndexSignatures", "WriteMessage", "PruneSignatures",
                 "Prune"} -> "prune"
      [] op \in {"DeletePruning", "StoreLastPruned", "GetLastPruned"} -> "pruning"
      [] op = "SaveEpoch" -> "epoch"
      [] OTHER -> "none"

InArea(a) == last.op = "none" \/ AreaOf(last.op) = a

InitRetention ==
    /\ dialect = "postgres"
    /\ db = EmptyStore
    /\ last = NoOp
    /\ pc = NoCalls
    /\ modules = <<>>

WriteCommitSignatures ==
    \E batch \in SignatureBatches :
        LET r == SaveCommitSignatures(OuterHandle(db), batch, "none")
        IN  /\ InArea("signatures")
            /\ Len(r.h.tables["pre_commit"]) <= MaxRows
            /\ db' = r.h.tables
            /\ last' = [op |-> "SaveCommitSignatures", arg |-> batch, err |-> r.err,
                        rowsBefore |-> Len(db["pre_commit"])]
            /\ UNCHANGED <<dialect, pc, modules>>

EnsurePartition ==
    \E partitionID \in Keys :
        LET r == createPartitionIfNotExists(OuterHandle(db), "pre_commit", partitionID,
                                            "none")
        IN  /\ InArea("signatures")
            /\ db' = r.h.tables
            /\ last' = [op |-> "createPartitionIfNotExists", arg |-> partitionID,
                        err |-> r.err]
            /\ UNCHANGED <<dialect, pc, modules>>

\* The operations that fill the tables Prune deletes from.  Each is a call
\* of its own: it takes effect before, between or after the two statements
\* of a Prune that is under way.

\* SaveTx of one transaction of a block.
IndexTx ==
    \E e \in IndexedTxs :
        LET r == SaveTx(OuterHandle(db), e.blockTimestamp, e.index, e.tx, "none")
        IN  /\ InArea("prune")
            /\ Len(r.h.tables["transaction"]) <= MaxRows
            /\ db' = r.h.tables
            /\ last' = [op |-> "IndexTx", err |-> r.err]
            /\ UNCHANGED <<dialect, pc, modules>>

\* SaveCommitSignatures of one signature of a block.
IndexSignatures ==
    \E a \in IndexedSignatures :
        LET r == SaveCommitSignatures(OuterHandle(db), <<a>>, "none")
        IN  /\ InArea("prune")
            /\ Len(r.h.tables["pre_commit"]) <= MaxRows
            /\ db' = r.h.tables
            /\ last' = [op |-> "IndexSignatures", err |-> r.err]
            /\ UNCHANGED <<dialect, pc, modules>>

\* A message row is stored.  The writer of the message table is not part of
\* the code at hand: a row is appended, the table having no unique key.
WriteMessage ==
    \E hash \in MessageHashes :
        /\ InArea("prune")
        /\ Len(db["message"]) < MaxRows
        /\ db' = [db EXCEPT !["message"] = Append(@, MessageRow(hash))]
        /\ last' = [op |-> "WriteMessage", err |-> Nil]
        /\ UNCHANGED <<dialect, pc, modules>>

\* The pruner calls Prune and its first statement runs.  The call returns
\* here when the statement fails.
PruneSignatures ==
    \E height \in Keys, f1 \in Faults :
        LET c == "async"
            r == Prune(OuterHandle(db), height, pc[c].at, f1)
            signatures == Len(db["pre_commit"]) - Len(r.h.tables["pre_commit"])
        IN  /\ InArea("prune")
            /\ pc[c].at = "idle"
            /\ db' = r.h.tables
            /\ pc' = IF r.at = "idle" THEN pc
                     ELSE [pc EXCEPT ![c] = [at |-> r.at, height |-> height,
                                             signatures |-> signatures]]
            /\ last' = [op |-> IF r.at = "idle" THEN "Prune" ELSE "PruneSignatures",
                        arg |-> height, err |-> r.err, f1 |-> f1, f2 |-> "none",
                        signatures |-> signatures, messages |-> 0]
            /\ UNCHANGED <<dialect, modules>>

\* The second statement of the Prune under way runs and the call returns.
PruneMessages ==
    \E f2 \in Faults :
        LET c == "async"
            r == Prune(OuterHandle(db), pc[c].height, pc[c].at, f2)
        IN  /\ InArea("prune")
            /\ pc[c].at = "signatures"
            /\ db' = r.h.tables
            /\ pc' = [pc EXCEPT ![c] = [at |-> r.at, height |-> 0]]
            /\ last' = [op |-> "Prune", arg |-> pc[c].height, err |-> r.err,
                        f1 |-> "none", f2 |-> f2,
                        signatures |-> pc[c].signatures,
                        messages |-> Len(db["message"]) - Len(db'["message"])]
            /\ UNCHANGED <<dialect, modules>>

\* The height of the most recent StoreLastPruned call that succeeded.
NeverStored == -1
LastStored(l) == IF "stored" \in DOMAIN l THEN l.stored ELSE NeverStored

\* The greatest height a StoreLastPruned call that succeeded has passed.
HighestStored(l) == IF "highest" \in DOMAIN l THEN l.highest ELSE NeverStored

\* Whether the most recent StoreLastPruned call that succeeded ran its two
\* statements with no statement of another caller in between.
LastSequential(l) == IF "sequential" \in DOMAIN l THEN l.sequential ELSE TRUE

\* The positions of the callers once caller c, now at position next, has run
\* a statement: a call of another caller that is under way is no longer alone.
Advance(c, next) ==
    [e \in Callers |->
        IF e = c THEN next
        ELSE IF pc[e].at = "deleted" THEN [pc[e] EXCEPT !.alone = FALSE]
        ELSE pc[e]]

\* A caller runs the first statement of StoreLastPruned.
StoreLastPrunedDelete ==
    \E c \in Callers, height \in Keys :
        LET r == DeletePruning(OuterHandle(db), "none")
        IN  /\ InArea("pruning")
            /\ pc[c].at = "idle"
            /\ db' = r.h.tables
            /\ pc' = Advance(c, [at |-> "deleted", height |-> height, alone |-> TRUE])
            /\ last' = [op |-> "DeletePruning", caller |-> c, arg |-> height,
                        err |-> r.err, stored |-> LastStored(last),
                        highest |-> HighestStored(last),
                        sequential |-> LastSequential(last)]
            /\ UNCHANGED <<dialect, modules>>

\* The caller runs the second statement and returns.
StoreLastPrunedInsert ==
    \E c \in Callers :
        LET r == InsertPruning(OuterHandle(db), pc[c].height, "none")
        IN  /\ InArea("pruning")
            /\ pc[c].at = "deleted"
            /\ db' = r.h.tables
            /\ pc' = Advance(c, [at |-> "idle", height |-> 0])
            /\ last' = [op |-> "StoreLastPruned", caller |-> c, arg |-> pc[c].height,
                        err |-> r.err,
                        stored |-> IF r.err = Nil THEN pc[c].height ELSE LastStored(last),
                        highest |-> IF r.err = Nil /\ pc[c].height > HighestStored(last)
                                    THEN pc[c].height ELSE HighestStored(last),
                        sequential |-> IF r.err = Nil THEN pc[c].alone
                                       ELSE LastSequential(last)]
            /\ UNCHANGED <<dialect, modules>>

ReadLastPruned ==
    LET r == GetLastPruned(OuterHandle(db))
    IN  /\ InArea("pruning")
        /\ last' = [op |-> "GetLastPruned", height |-> r.height, err |-> r.err,
                    stored |-> LastStored(last), highest |-> HighestStored(last),
                    sequential |-> LastSequential(last)]
        /\ UNCHANGED <<dialect, db, pc, modules>>

WriteEpoch ==
    \E epoch \in SaveInputs("SaveEpoch") :
        LET r == SaveEpoch(OuterHandle(db), epoch, "none")
        IN  /\ InArea("epoch")
            /\ db' = r.h.tables
            /\ last' = [op |-> "SaveEpoch", arg |-> epoch, err |-> r.err]
            /\ UNCHANGED <<dialect, pc, modules>>

NextRetention ==
    \/ WriteCommitSignatures \/ EnsurePartition
    \/ IndexTx \/ IndexSignatures \/ WriteMessage \/ PruneSignatures \/ PruneMessages
    \/ StoreLastPrunedDelete \/ StoreLastPrunedInsert \/ ReadLastPruned \/ WriteEpoch

SpecRetention == InitRetention /\ [][NextRetention]_vars

(***************************************************************************)
(* Properties of commit signatures, partitions and retention.              *)
(***************************************************************************)
SameSignatureKey(a, b) == \A c \in SignatureKey : a[c] = b[c]

\* C12: SaveCommitSignatures is append-only and idempotent by natural key:
\* it returns no error, leaves every stored row as it is, ignores a signature
\* whose (validator, timestamp) pair is stored, inserts the other signatures
\* of the batch, and writes nothing for an empty batch.
C12_SignaturesAppendOrIgnore ==
    [][last'.op = "SaveCommitSignatures" =>
        LET old == db["pre_commit"]
            new == db'["pre_commit"]
            batch == last'.arg
            fresh(i) == /\ \A j \in DOMAIN old : ~SameSignatureKey(old[j], batch[i])
                        /\ \A j \in 1..(i - 1) : ~SameSignatureKey(batch[j], batch[i])
        IN  /\ last'.err = Nil
            /\ Len(new) >= Len(old)
            /\ \A j \in DOMAIN old : new[j] = old[j]
            /\ \A i \in DOMAIN batch : fresh(i) => SignatureRow(batch[i]) \in Range(new)
            /\ Len(new) = Len(old) + Cardinality({i \in DOMAIN batch : fresh(i)})
            /\ batch = <<>> => db' = db
            /\ \A t \in Tables \ {"pre_commit"} : db'[t] = db[t]]_vars

\* A batch of two written over one stored row: the signature whose pair was
\* stored with another voting power is ignored, the other one is inserted.
C12_Witness ==
    /\ last.op = "SaveCommitSignatures"
    /\ last.err = Nil
    /\ Len(last.arg) = 2
    /\ last.rowsBefore = 1
    /\ Len(db["pre_commit"]) = 2
    /\ \E i \in DOMAIN last.arg :
           /\ SameSignatureKey(db["pre_commit"][1], last.arg[i])
           /\ db["pre_commit"][1].voting_power # last.arg[i].voting_power

\* The natural key of the rows a batch operation writes.
BatchKey(name) ==
    CASE name = "CreateGroup" -> {"group_id", "account_id"}
      [] name = "MultiSaveStatement" -> {"policy_id"}

\* C13: for the batch writes of statements and of group members, a
\* natural-key conflict on one row of the batch does not keep the other rows
\* from being stored: the call returns no error and every row of the batch
\* is then present with the supplied values.
C13_BatchConflictKeepsOtherRows ==
    [][last'.op \in BatchNames =>
        LET old == db[TableOf(last'.op)]
            new == db'[TableOf(last'.op)]
            batch == last'.arg
            key == BatchKey(last'.op)
            conflict ==
                \E i \in DOMAIN batch :
                    \/ Matching(old, key, batch[i]) # {}
                    \/ Matching(batch, key, batch[i]) # {i}
        IN  conflict =>
                /\ last'.err = Nil
                /\ \A i \in DOMAIN batch : batch[i] \in Range(new)]_vars

\* C13, the part the code keeps: a batch whose rows have pairwise distinct
\* keys is stored whole, whatever rows it collides with in the store.
C13_DistinctKeysBatchIsStored ==
    [][last'.op \in BatchNames =>
        LET new == db'[TableOf(last'.op)]
            batch == last'.arg
        IN  (\A i \in DOMAIN batch : Matching(batch, BatchKey(last'.op), batch[i]) = {i}) =>
                /\ last'.err = Nil
                /\ \A i \in DOMAIN batch : batch[i] \in Range(new)]_vars

\* The discriminator of a commit signature and the partitions of the catalog.
Discriminator(sig) == sig.height
Partitions(store) == {store["partitions"][i].name : i \in DOMAIN store["partitions"]}

\* C14: partitions are created lazily and idempotently: a write of commit
\* signatures adds the partition <table>_<discriminator> of each discriminator
\* not seen before, once, and a later write or createPartitionIfNotExists call
\* with a discriminator that has its partition adds none and returns no error.
C14_PartitionCreatedOnFirstWrite ==
    [][/\ last'.op = "SaveCommitSignatures" =>
              /\ last'.err = Nil
              /\ Partitions(db') =
                     Partitions(db) \cup
                     {PartitionName("pre_commit", Discriminator(last'.arg[i])) :
                          i \in DOMAIN last'.arg}
              /\ Len(db'["partitions"]) = Cardinality(Partitions(db'))
       /\ last'.op = "createPartitionIfNotExists" =>
              /\ last'.err = Nil
              /\ Partitions(db') =
                     Partitions(db) \cup {PartitionName("pre_commit", last'.arg)}
              /\ Len(db'["partitions"]) = Cardinality(Partitions(db'))]_vars

\* C14, the part the code keeps: createPartitionIfNotExists adds the named
\* partition when it is missing, adds nothing when it exists, and returns no
\* error either way.
C14_CreatePartitionIsIdempotent ==
    [][last'.op = "createPartitionIfNotExists" =>
          /\ last'.err = Nil
          /\ Partitions(db') = Partitions(db) \cup {PartitionName("pre_commit", last'.arg)}
          /\ Len(db'["partitions"]) = Cardinality(Partitions(db'))]_vars

\* The message rows whose parent transaction is at the height.
MessagesAt(store, height) ==
    {i \in DOMAIN store["message"] :
        \E j \in DOMAIN store["transaction"] :
            /\ store["message"][i].transaction_hash = store["transaction"][j].hash
            /\ store["transaction"][j].height = height}

\* The commit-signature rows at a height.
SignaturesAt(store, height) ==
    {i \in DOMAIN store["pre_commit"] : store["pre_commit"][i].height = height}

\* C15: Prune(h), its statements meeting no backend failure, returns no
\* error; its first statement removes every commit-signature row at height
\* h, its second every message row whose parent transaction is at height h,
\* and each leaves the rows of every other height and every other table as
\* they are; a statement changes nothing when no row of its kind exists at h.
C15_PruneRemovesExactlyTheHeight ==
    [][/\ (last'.op = "PruneSignatures" /\ last'.f1 = "none") =>
            LET h == last'.arg
            IN  /\ last'.err = Nil
                /\ db'["pre_commit"] =
                       SelectSeq(db["pre_commit"], LAMBDA r : r.height # h)
                /\ \A t \in Tables \ {"pre_commit"} : db'[t] = db[t]
                /\ SignaturesAt(db, h) = {} => db' = db
       /\ (last'.op = "Prune" /\ last'.f1 = "none" /\ last'.f2 = "none") =>
            LET h == last'.arg
            IN  /\ last'.err = Nil
                /\ MessagesAt(db', h) = {}
                /\ Len(db'["message"]) =
                       Len(db["message"]) - Cardinality(MessagesAt(db, h))
                /\ \A k \in Keys \ {h} :
                       Cardinality(MessagesAt(db', k)) = Cardinality(MessagesAt(db, k))
                /\ \A i \in DOMAIN db["message"] :
                       i \notin MessagesAt(db, h) =>
                           db["message"][i] \in Range(db'["message"])
                /\ \A t \in Tables \ {"message"} : db'[t] = db[t]
                /\ MessagesAt(db, h) = {} => db' = db]_vars

\* A Prune that removed a signature and a message and left a signature and a
\* message of another height.
C15_Witness ==
    /\ last.op = "Prune"
    /\ last.err = Nil
    /\ last.signatures > 0
    /\ last.messages > 0
    /\ db["pre_commit"] # <<>>
    /\ \E k \in Keys : MessagesAt(db, k) # {}

\* C16: whatever failure its statements meet, a Prune(h) that returns no
\* error has applied both deletes: its first statement ran without error and
\* left no commit-signature row at height h, its second ran without error
\* and leaves no message row of a transaction at height h; when only one
\* delete took effect the call returned an error.
C16_PruneSucceedsOnlyWithBothDeletes ==
    [][/\ last'.op = "PruneSignatures" =>
            /\ last'.err = Nil
            /\ SignaturesAt(db', last'.arg) = {}
       /\ last'.op = "Prune" =>
            /\ last'.err = Nil =>
                   /\ pc["async"].at = "signatures"
                   /\ pc["async"].height = last'.arg
                   /\ MessagesAt(db', last'.arg) = {}
            /\ (pc["async"].at = "idle" \/ MessagesAt(db', last'.arg) # {}) =>
                   last'.err # Nil]_vars

\* A Prune whose first delete removed signatures and whose second delete
\* failed: the messages of the height are left and the call returned an error.
C16_Witness ==
    /\ last.op = "Prune"
    /\ last.f1 = "none"
    /\ last.f2 = "fail"
    /\ last.err # Nil
    /\ last.signatures > 0
    /\ MessagesAt(db, last.arg) # {}

\* Another caller stored a signature at the height between the two
\* statements: the Prune returned no error, both its deletes applied, and a
\* commit-signature row at the height is in the store.
C16_InterleavedWitness ==
    /\ last.op = "Prune"
    /\ last.err = Nil
    /\ last.signatures > 0
    /\ SignaturesAt(db, last.arg) # {}

C17_OverlappingCallsWitness ==
    /\ last.op = "GetLastPruned"
    /\ \A c \in Callers : pc[c].at = "idle"
    /\ ~last.sequential
    /\ last.height # last.stored

\* C18: the singleton tables hold at most one row in every reachable state:
\* the epoch table after any sequence of SaveEpoch calls and the pruning table
\* under any interleaving of the statements of concurrent StoreLastPruned
\* calls.
C18_SingletonTablesHoldOneRow ==
    /\ Len(db["epoch"]) <= 1
    /\ Len(db["pruning"]) <= 1

\* The epoch table alone holds at most one row in every reachable state.
C18_EpochHoldsOneRow == Len(db["epoch"]) <= 1

\* The pruning table holds at most one row whenever no StoreLastPruned call
\* overlapped another: every call so far that succeeded ran alone.
C18_PruningHoldsOneRowAfterACallAlone ==
    (last.op = "StoreLastPruned" /\ last.err = Nil /\ last.sequential) =>
        Len(db["pruning"]) = 1

\* The epoch row overwritten by a second SaveEpoch.
C18_EpochWitness ==
    /\ last.op = "SaveEpoch"
    /\ Len(db["epoch"]) = 1
    /\ db["epoch"][1].block_height = last.arg.block_height
    /\ last.arg.block_height > 1

(***************************************************************************)
(* The module registry and the event dispatcher.                           *)
(***************************************************************************)
\* The simple case folding of a character.
Fold(c) ==
    CASE c = "A" -> "a"
      [] c = "B" -> "b"
      [] OTHER -> c

\* strings.EqualFold
EqualFold(s, t) ==
    /\ Len(s) = Len(t)
    /\ \A i \in DOMAIN s : Fold(s[i]) = Fold(t[i])

NilModule == [name |-> <<>>, eventModule |-> FALSE, events |-> {}]

\* FindByName comparing the names as they are written.
RECURSIVE FindByNameExact(_, _)
FindByNameExact(m, name) ==
    IF m = <<>> THEN [module |-> NilModule, found |-> FALSE]
    ELSE IF Head(m).name = name THEN [module |-> Head(m), found |-> TRUE]
    ELSE FindByNameExact(Tail(m), name)

RECURSIVE FindByName(_, _)
FindByName(m, name) ==
    IF m = <<>> THEN [module |-> NilModule, found |-> FALSE]
    ELSE IF EqualFold(Head(m).name, name) THEN [module |-> Head(m), found |-> TRUE]
    ELSE FindByName(Tail(m), name)

\* A module's HandleEvent: it handles the event types of its interest set
\* and returns at once on any other.
HandlesEvent(module, event) == module.eventModule /\ event \in module.events

\* The handler calls one event causes, module by module in registry order.
RECURSIVE DispatchEvent(_, _, _, _)
DispatchEvent(m, k, events, e) ==
    IF k > Len(m) THEN <<>>
    ELSE (IF HandlesEvent(m[k], events[e]) THEN <<[module |-> k, event |-> e]>> ELSE <<>>)
         \o DispatchEvent(m, k + 1, events, e)

\* The dispatcher handing every event to one module before the next module.
RECURSIVE DispatchByModule(_, _, _)
DispatchByModule(m, events, k) ==
    IF k > Len(m) THEN <<>>
    ELSE SelectSeq([e \in DOMAIN events |-> [module |-> k, event |-> e]],
                   LAMBDA c : HandlesEvent(m[k], events[c.event]))
         \o DispatchByModule(m, events, k + 1)

\* The dispatcher: for each event of the block in emission order, for each
\* registered module in order.  e is the next event to dispatch.
RECURSIVE Dispatch(_, _, _)
Dispatch(m, events, e) ==
    IF e > Len(events) THEN <<>>
    ELSE DispatchEvent(m, 1, events, e) \o Dispatch(m, events, e + 1)

\* The handlers of one item with the first error ending the item.
RECURSIVE InvokeUntilError(_, _, _)
InvokeUntilError(m, k, failing) ==
    IF k > Len(m) THEN <<>>
    ELSE IF ~m[k].eventModule THEN InvokeUntilError(m, k + 1, failing)
    ELSE IF k \in failing THEN <<[module |-> k, failed |-> TRUE]>>
    ELSE <<[module |-> k, failed |-> FALSE]>> \o InvokeUntilError(m, k + 1, failing)

\* The handlers one item causes: every module that has the capability is
\* invoked, in registry order, and the modules of failing return an error
\* that is logged.  k is the next module to look at.
RECURSIVE InvokeAll(_, _, _)
InvokeAll(m, k, failing) ==
    IF k > Len(m) THEN <<>>
    ELSE IF ~m[k].eventModule THEN InvokeAll(m, k + 1, failing)
    ELSE <<[module |-> k, failed |-> (k \in failing)]>> \o InvokeAll(m, k + 1, failing)

ModuleNames == {<<"a">>, <<"A">>, <<"b">>}
EventTypes == {"X", "Y"}

ModuleSet ==
    [name : ModuleNames, eventModule : {TRUE}, events : {{"X"}, {"X", "Y"}}]
        \cup [name : ModuleNames, eventModule : {FALSE}, events : {{}}]

RECURSIVE SeqsUpTo(_, _)
SeqsUpTo(S, n) ==
    IF n = 0 THEN {<<>>}
    ELSE LET shorter == SeqsUpTo(S, n - 1)
         IN  shorter \cup {Append(q, x) : q \in {r \in shorter : Len(r) = n - 1}, x \in S}

InitModules ==
    /\ dialect \in Dialects
    /\ db = EmptyStore
    /\ last = NoOp
    /\ pc = NoCalls
    /\ modules \in SeqsUpTo(ModuleSet, MaxModules)

Lookup ==
    \E name \in ModuleNames \cup {<<"a", "b">>, <<"B">>} :
        LET r == FindByName(modules, name)
        IN  /\ last' = [op |-> "FindByName", arg |-> name, module |-> r.module,
                        found |-> r.found]
            /\ UNCHANGED <<dialect, db, pc, modules>>

DispatchBlock ==
    \E events \in SeqsUpTo(EventTypes, MaxEvents) :
        /\ last' = [op |-> "Dispatch", arg |-> events,
                    calls |-> Dispatch(modules, events, 1)]
        /\ UNCHANGED <<dialect, db, pc, modules>>

\* One item handed to the modules, the handlers of some of them failing.
DispatchItem ==
    \E failing \in SUBSET DOMAIN modules :
        /\ last' = [op |-> "DispatchItem", failing |-> failing,
                    calls |-> InvokeAll(modules, 1, failing)]
        /\ UNCHANGED <<dialect, db, pc, modules>>

NextModules == Lookup \/ DispatchBlock \/ DispatchItem

SpecModules == InitModules /\ [][NextModules]_vars

(***************************************************************************)
(* Properties of the registry and the dispatcher.                          *)
(***************************************************************************)
ToLower(s) == [i \in DOMAIN s |-> Fold(s[i])]

\* C19: FindByName(name) returns (m, true) where m is the first module in
\* registration order whose name equals name ignoring case, returns
\* (nil, false) exactly when no registered module has such a name, and
\* leaves the registered sequence as it is.
C19_FindByNameFirstMatchIgnoringCase ==
    [][last'.op = "FindByName" =>
        LET match == {i \in DOMAIN modules :
                         ToLower(modules[i].name) = ToLower(last'.arg)}
        IN  /\ last'.found <=> match # {}
            /\ match # {} =>
                   \E i \in match : /\ \A j \in match : i <= j
                                     /\ last'.module = modules[i]
            /\ match = {} => last'.module = NilModule
            /\ modules' = modules]_vars

\* A name found under another case, the first of two modules that carry it.
C19_Witness ==
    /\ last.op = "FindByName"
    /\ last.found
    /\ Len(modules) = 2
    /\ last.module = modules[1]
    /\ modules[1] # modules[2]
    /\ modules[1].name # last.arg
    /\ ToLower(modules[2].name) = ToLower(last.arg)

\* C20: the handler calls of a block follow the emission order of the events
\* and, within one event, the registration order of the modules, and they
\* are exactly the calls of the event modules interested in each event.
C20_DispatchOrder ==
    last.op = "Dispatch" =>
        LET calls == last.calls
            events == last.arg
        IN  /\ \A i, j \in DOMAIN calls :
                   i < j => \/ calls[i].event < calls[j].event
                            \/ /\ calls[i].event = calls[j].event
                               /\ calls[i].module < calls[j].module
            /\ Range(calls) =
                   {c \in [module : DOMAIN modules, event : DOMAIN events] :
                       /\ modules[c.module].eventModule
                       /\ events[c.event] \in modules[c.module].events}

\* A registered first and B second, both interested in X and only B in Y:
\* [X, Y, X] gives A(X1), B(X1), B(Y), A(X2), B(X2).
C20_Witness ==
    /\ last.op = "Dispatch"
    /\ last.arg = <<"X", "Y", "X">>
    /\ Len(modules) = 2
    /\ modules[1].events = {"X"}
    /\ modules[2].events = {"X", "Y"}
    /\ last.calls = <<[module |-> 1, event |-> 1], [module |-> 2, event |-> 1],
                      [module |-> 2, event |-> 2], [module |-> 1, event |-> 3],
                      [module |-> 2, event |-> 3]>>

(***************************************************************************)
(* Ownership of statements by permissions.                                 *)
(***************************************************************************)
\* The statement rows in force that no permission row in force owns.
Orphans(store) ==
    {i \in DOMAIN store["statements"] :
        /\ ~store["statements"][i].removed
        /\ ~\E j \in DOMAIN store["permission"] :
               /\ ~store["permission"][j].removed
               /\ store["permission"][j].policy_id = store["statements"][i].policy_id}

\* C29: after any sequence of successfully handled put-policy and
\* delete-policy events, every statement row not marked removed carries the
\* policy id of a stored permission row that is not marked removed, also when
\* a put-policy event re-uses the compound key of an existing permission with
\* another policy id.
C29_StatementsHaveAnOwner ==
    [][(last'.op = "HandleEvent" /\ last'.ret = Nil /\ Orphans(db) = {}) =>
        Orphans(db') = {}]_vars

(***************************************************************************)
(* The error a handler returns for a failed transaction.                   *)
(***************************************************************************)
\* Which of the first write, the second write and the commit failed.
FailedSteps(l) == <<l.err1 # Nil, l.err2 # Nil, l.err3 # Nil>>

\* C22: the error handlePutPolicy / handleDeletePolicy returns identifies,
\* for each of the first write, the second write and the commit, whether it
\* failed: two runs of the same handler that fail in different steps return
\* different errors.
C22_ErrorNamesEveryFailure ==
    [][(/\ last.op = "HandleEvent" /\ last.ret # Nil
        /\ last'.op = "HandleEvent" /\ last'.ret # Nil
        /\ last'.event.type = last.event.type
        /\ FailedSteps(last') # FailedSteps(last)) =>
        last'.ret # last.ret]_vars

(***************************************************************************)
(* Member operations of a coordinated scope.                               *)
(***************************************************************************)
\* The positions of a call in the calls a handler made.
Positions(calls, name) == {i \in DOMAIN calls : calls[i] = name}

\* C26: a handler that opens a transaction attempts both member operations
\* whatever the first one returned (handlePutPolicy: SavePermission then
\* MultiSaveStatement; handleDeletePolicy: UpdatePermission then
\* RemoveStatements), each exactly once and in this order, and calls Commit
\* and Rollback only after both member operations ran.
C26_EveryMemberOperationIsAttempted ==
    (last.op = "HandleEvent" /\ last.calls # <<>>) =>
        LET first == IF last.event.type = EventPutPolicy
                     THEN "SavePermission" ELSE "UpdatePermission"
            second == IF last.event.type = EventPutPolicy
                      THEN "MultiSaveStatement" ELSE "RemoveStatements"
        IN  /\ Positions(last.calls, "Begin") = {1}
            /\ Positions(last.calls, first) = {2}
            /\ Positions(last.calls, second) = {3}
            /\ \A i \in Positions(last.calls, "Commit") \cup
                         Positions(last.calls, "Rollback") : i > 3

\* A put-policy event with statements whose SavePermission failed and whose
\* MultiSaveStatement was still invoked.
C26_Witness ==
    /\ IsHandled(last, EventPutPolicy)
    /\ last.err1 # Nil
    /\ "MultiSaveStatement" \in Range(last.calls)
    /\ Len(last.event.statements) > 0

(***************************************************************************)
(* Events the permission module rejects or skips.                          *)
(***************************************************************************)
\* A put-policy event one of whose statements names an action type that is
\* not in actionTypeMap.
HasUnknownAction(event) ==
    \E i \in DOMAIN event.statements :
        \E k \in DOMAIN event.statements[i].actions :
            event.statements[i].actions[k] \notin DOMAIN actionTypeMap

\* C28: a put-policy event with a statement whose action type is outside
\* the known action map makes handlePutPolicy return an error without
\* calling Begin, SavePermission, MultiSaveStatement, Commit or Rollback; the
\* store is unchanged.
C28_UnknownActionRejectedBeforePersistence ==
    [][(IsHandled(last', EventPutPolicy) /\ HasUnknownAction(last'.event)) =>
        /\ last'.ret = ErrUnknownAction
        /\ last'.calls = <<>>
        /\ db' = db]_vars

\* A put-policy event with a known and an unknown statement, rejected while
\* the store holds a permission and a statement.
C28_Witness ==
    /\ IsHandled(last, EventPutPolicy)
    /\ HasUnknownAction(last.event)
    /\ last.ret = ErrUnknownAction
    /\ db["permission"] # <<>>
    /\ db["statements"] # <<>>

(***************************************************************************)
(* The permission and the payment module handed the events of a chain:     *)
(* their own, each other's and those of a third module.                    *)
(***************************************************************************)
BlockHeights == {1}

PaymentAccountUpdates ==
    [type : {EventPaymentAccountUpdate}, addr : Keys, owner : {1},
     refundable : BOOLEAN]

StreamRecordUpdates ==
    [type : {EventStreamRecordUpdate}, account : Keys, crud_timestamp : {1},
     netflow_rate : Attrs, frozen_netflow_rate : {0}, static_balance : {0},
     buffer_balance : {0}, lock_balance : {0},
     status : {"STREAM_ACCOUNT_STATUS_ACTIVE"}, settle_timestamp : {0}]

\* The interest set of each of the two modules.
InterestOf(module) ==
    IF module = "payment" THEN PaymentEvents ELSE PolicyEvents

\* The tables each module writes.
TablesOf(module) ==
    IF module = "payment" THEN {"payment_accounts", "stream_records"}
    ELSE {"permission", "statements"}

\* The store holds nothing of the module: the modules fill the store in
\* separate runs, and the payment module one table in a run.
Untouched(module) == \A t \in TablesOf(module) : db[t] = <<>>

InitHandlers ==
    /\ dialect \in Dialects
    /\ db = EmptyStore
    /\ last = NoOp
    /\ pc = NoCalls
    /\ modules = <<>>

\* One event handled by the payment module.
HandlePaymentEvent(event, blockHeight, blockTime, fault) ==
    LET r == PaymentHandleEvent(OuterHandle(db), event, blockHeight, blockTime, fault)
    IN  /\ db' = Visible(db, r.h)
        /\ last' = [op |-> "HandleEvent", module |-> "payment", event |-> event,
                    blockTime |-> blockTime, decoded |-> r.decoded,
                    calls |-> r.calls, ret |-> r.ret]
        /\ UNCHANGED <<dialect, pc, modules>>

PaymentEvent ==
    \E event \in PaymentAccountUpdates \cup StreamRecordUpdates,
       blockHeight \in BlockHeights, blockTime \in BlockTimes, fault \in Faults :
        /\ InFocus(IF event.type = EventPaymentAccountUpdate
                   THEN "payment_accounts" ELSE "stream_records")
        /\ HandlePaymentEvent(event, blockHeight, blockTime, fault)

\* An event of the payment module's interest that cannot be decoded.
MalformedPaymentEvent ==
    \E event \in Malformed(PaymentAccountUpdates \cup StreamRecordUpdates),
       blockHeight \in BlockHeights, blockTime \in BlockTimes :
        HandlePaymentEvent(event, blockHeight, blockTime, "none")

PaymentSkips ==
    \E event \in PutPolicyEvents({1}, {<<AllowStatement>>}) \cup DeletePolicyEvents
                      \cup OtherEvents,
       blockHeight \in BlockHeights, blockTime \in BlockTimes :
        HandlePaymentEvent(event, blockHeight, blockTime, "none")

PermissionEvent ==
    \E event \in PutPolicyEvents({1}, {<<AllowStatement>>}) \cup DeletePolicyEvents,
       blockTime \in BlockTimes :
        /\ Untouched("payment")
        /\ HandlePolicyEvent(event, blockTime, "none", "none", "none")

PermissionSkips ==
    \E event \in PaymentAccountUpdates \cup StreamRecordUpdates \cup OtherEvents,
       blockTime \in BlockTimes :
        HandlePolicyEvent(event, blockTime, "none", "none", "none")

NextHandlers ==
    \/ PaymentEvent
    \/ MalformedPaymentEvent
    \/ PaymentSkips
    \/ PermissionEvent
    \/ PermissionSkips

SpecHandlers == InitHandlers /\ [][NextHandlers]_vars

\* C27: HandleEvent of the payment or the permission module, invoked with
\* an event whose type is not in the module's interest set, returns nil
\* without decoding the event, without opening a transaction and without
\* calling a store operation; the store is unchanged.
C27_UninterestedEventIsSkipped ==
    [][(last'.op = "HandleEvent" /\ last'.event.type \notin InterestOf(last'.module)) =>
        /\ last'.ret = Nil
        /\ ~last'.decoded
        /\ last'.calls = <<>>
        /\ db' = db]_vars

\* The payment module skipping a put-policy event while it has rows stored.
C27_Witness ==
    /\ last.op = "HandleEvent"
    /\ last.module = "payment"
    /\ last.event.type = EventPutPolicy
    /\ last.ret = Nil
    /\ db["payment_accounts"] # <<>>

\* The permission module skipping a payment event while it has rows stored.
C27_PermissionWitness ==
    /\ last.op = "HandleEvent"
    /\ last.module = "permission"
    /\ last.event.type = EventStreamRecordUpdate
    /\ last.ret = Nil
    /\ db["permission"] # <<>>
    /\ db["statements"] # <<>>

(***************************************************************************)
(* The driver calling the store: with a live or a cancelled context, on    *)
(* the outer handle or on a handle returned by Begin.                      *)
(***************************************************************************)
Contexts == {"live", "cancelled"}

\* The operations that hand their context to gorm (db.Db.WithContext(ctx)).
PassesContext ==
    {"SaveCommitSignatures", "SaveBucket", "UpdateBucket", "SaveObject",
     "UpdateObject", "GetObject", "SaveStreamRecord", "SavePaymentAccount",
     "SavePermission", "UpdatePermission", "CreateGroup", "UpdateGroup",
     "DeleteGroup", "CreateStorageProvider", "UpdateStorageProvider",
     "MultiSaveStatement", "RemoveStatements", "SaveGVG", "UpdateGVG", "SaveLVG",
     "UpdateLVG", "SaveVGF", "UpdateVGF"}

\* The handle on which operation name issues its statements when it is
\* called with ctx on h: a statement under a cancelled context is refused
\* before it is sent, a call that issues no statement is not.
Bind(name, ctx, h) ==
    IF name \in PassesContext THEN WithContext(h, ctx) ELSE h

\* The operations the driver calls here.
DriverNames == {"SaveBlock", "SaveTx", "SaveEpoch", "SaveBucket", "SavePaymentAccount"}
DriverReads == {"HasBlock", "GetLastBlockHeight"}

\* Begin called depth times, each time on the handle the call before returned.
RECURSIVE Nest(_, _)
Nest(h, depth) == IF depth = 0 THEN h ELSE Begin(Nest(h, depth - 1))

\* Commit on the handle of every level of a scope begun on outer, the
\* innermost first.  The handles of all levels sit on the transaction tx;
\* each carries the error Begin left on it.
RECURSIVE CommitAll(_, _, _)
CommitAll(outer, tx, depth) ==
    IF depth = 0 THEN [h |-> tx, errs |-> <<>>]
    ELSE LET c == Commit([tx EXCEPT !.error = Nest(outer, depth).error], "none")
             rest == CommitAll(outer, c.h, depth - 1)
         IN  [h |-> rest.h, errs |-> <<c.err>> \o rest.errs]

\* Transactions with a part the codec cannot encode.
UnencodableTxs ==
    LET good == CHOOSE tx \in TxInputs : tx.height = 1 /\ tx.tx_hash = <<"0", "a">>
    IN  {[good EXCEPT !.messages = <<"bad">>],
         [good EXCEPT !.messages = <<"msg", "bad">>],
         [good EXCEPT !.fee = "bad"],
         [good EXCEPT !.signer_infos = <<"signer", "bad">>],
         [good EXCEPT !.logs = "bad"],
         [good EXCEPT !.fee = "bad", !.logs = "bad"]}

InitDriver ==
    /\ dialect \in Dialects
    /\ db = EmptyStore
    /\ last = NoOp
    /\ pc = NoCalls
    /\ modules = <<>>

\* A write on the outer handle, with a live or a cancelled context.
CallWithContext ==
    \E name \in DriverNames, ctx \in Contexts : \E e \in SaveInputs(name) :
        LET r == CallSave(name, Bind(name, ctx, OuterHandle(db)), e, "none")
        IN  /\ InFocus(TableOf(name))
            /\ Len(r.h.tables[TableOf(name)]) <= MaxRows
            /\ db' = r.h.tables
            /\ last' = [op |-> name, ctx |-> ctx, depth |-> 0, arg |-> e,
                        err |-> r.err, errOuter |-> r.err, errs |-> <<>>,
                        same |-> TRUE]
            /\ UNCHANGED <<dialect, pc, modules>>

\* SaveCommitSignatures on the outer handle, with a live or a cancelled
\* context: an empty list returns before any statement is prepared.
SignaturesWithContext ==
    \E ctx \in Contexts :
    \E batch \in {<<>>} \cup {<<a>> : a \in {x \in Signatures : x.voting_power = 1}} :
        LET name == "SaveCommitSignatures"
            r == SaveCommitSignatures(Bind(name, ctx, OuterHandle(db)), batch, "none")
        IN  /\ dialect = "postgres"
            /\ InFocus("pre_commit")
            /\ Len(r.h.tables["pre_commit"]) <= MaxRows
            /\ db' = r.h.tables
            /\ last' = [op |-> name, ctx |-> ctx, depth |-> 0, arg |-> batch,
                        err |-> r.err, errOuter |-> r.err, errs |-> <<>>,
                        same |-> TRUE]
            /\ UNCHANGED <<dialect, pc, modules>>

\* A read on the outer handle, with a live or a cancelled context.
ReadWithContext ==
    \E name \in DriverReads, ctx \in Contexts, height \in Keys :
        LET h == Bind(name, ctx, OuterHandle(db))
            res == IF name = "HasBlock" THEN HasBlock(h, height)
                   ELSE GetLastBlockHeight(h)
        IN  /\ InFocus("blocks")
            /\ last' = [op |-> name, ctx |-> ctx, depth |-> 0, arg |-> height,
                        err |-> res.err, errOuter |-> res.err, errs |-> <<>>,
                        same |-> TRUE]
            /\ UNCHANGED <<dialect, db, pc, modules>>

\* A write on the handle of a scope depth levels deep, and the commits of
\* every level.  errOuter is what the same call returns on the outer handle
\* and same tells whether the store ends as that call leaves it.
CallInScope ==
    \E name \in DriverNames, depth \in 1..MaxDepth : \E e \in SaveInputs(name) :
        LET outer == CallSave(name, OuterHandle(db), e, "none")
            r == CallSave(name, Nest(OuterHandle(db), depth), e, "none")
            c == CommitAll(OuterHandle(db), r.h, depth)
            store == Visible(db, c.h)
        IN  /\ InFocus(TableOf(name))
            /\ Len(store[TableOf(name)]) <= MaxRows
            /\ db' = store
            /\ last' = [op |-> name, ctx |-> "live", depth |-> depth, arg |-> e,
                        err |-> r.err, errOuter |-> outer.err, errs |-> c.errs,
                        same |-> (store = outer.h.tables)]
            /\ UNCHANGED <<dialect, pc, modules>>

\* SaveTx on the outer handle with a transaction the codec cannot encode.
SaveUnencodableTx ==
    \E tx \in UnencodableTxs, blockTimestamp \in BlockTimes :
        LET e == [blockTimestamp |-> blockTimestamp, index |-> 0, tx |-> tx]
            r == CallSave("SaveTx", OuterHandle(db), e, "none")
        IN  /\ InFocus("transaction")
            /\ Len(r.h.tables["transaction"]) <= MaxRows
            /\ db' = r.h.tables
            /\ last' = [op |-> "SaveTx", ctx |-> "live", depth |-> 0, arg |-> e,
                        err |-> r.err, errOuter |-> r.err, errs |-> <<>>,
                        same |-> TRUE]
            /\ UNCHANGED <<dialect, pc, modules>>

NextDriver ==
    \/ CallWithContext
    \/ SignaturesWithContext
    \/ ReadWithContext
    \/ CallInScope
    \/ SaveUnencodableTx

SpecDriver == InitDriver /\ [][NextDriver]_vars

(***************************************************************************)
(* Properties of the calls of the driver.                                  *)
(***************************************************************************)
\* C23: a store operation invoked with an already cancelled context
\* performs no write on the store and returns the cancellation as its error.
C23_CancelledContextStopsTheOperation ==
    [][(last'.op \in DriverNames \cup DriverReads /\ last'.ctx = "cancelled") =>
        /\ last'.err = ErrCanceled
        /\ db' = db]_vars

\* C24: a store operation that succeeds on the outer handle succeeds on the
\* handle returned by Begin, also by Begin on an already scoped handle, the
\* commits of the scopes succeed and the store ends as the operation on the
\* outer handle leaves it.
C24_ScopedHandleIsInterchangeable ==
    [][(last'.op \in DriverNames /\ last'.depth > 0 /\ last'.errOuter = Nil) =>
        /\ last'.err = Nil
        /\ \A i \in DOMAIN last'.errs : last'.errs[i] = Nil
        /\ last'.same]_vars

\* The writes other than SaveTx run on the handle of a first-level scope as
\* they run on the outer handle.
C24_FirstLevelScopeRunsOtherWrites ==
    [][(/\ last'.op \in DriverNames \ {"SaveTx"} /\ last'.depth = 1
        /\ last'.errOuter = Nil) =>
        /\ last'.err = Nil
        /\ last'.errs = <<Nil>>
        /\ last'.same]_vars

\* The parts of a transaction the codec is asked to encode.
EncodedParts(tx) ==
    Range(tx.messages) \cup {tx.fee} \cup Range(tx.signer_infos) \cup {tx.logs}

\* C25: when the marshalling of a message, the fee, a signer info or the
\* logs fails, SaveTx returns an error and the store is unchanged.
C25_CodecErrorAbortsSaveTx ==
    [][(/\ last'.op = "SaveTx" /\ last'.depth = 0
        /\ EncodedParts(last'.arg.tx) \cap Unencodable # {}) =>
        /\ last'.err # Nil
        /\ db' = db]_vars

\* SaveTx refused for its logs, the last part encoded, while a transaction
\* is stored.
C25_Witness ==
    /\ last.op = "SaveTx"
    /\ last.arg.tx.logs \in Unencodable
    /\ last.arg.tx.fee \notin Unencodable
    /\ last.err = ErrMarshal
    /\ db["transaction"] # <<>>

(***************************************************************************)
(* Failure isolation across modules.                                       *)
(***************************************************************************)
\* C21: when the handler of one module returns an error for an item, the
\* handler of every module registered after it that has the capability is
\* still invoked for that item; every such module is invoked once, in
\* registration order.
C21_FailureDoesNotStopLaterModules ==
    last.op = "DispatchItem" =>
        LET calls == last.calls
            capable == {k \in DOMAIN modules : modules[k].eventModule}
        IN  /\ \A j \in capable \cap last.failing : \A k \in capable :
                   k > j => \E i \in DOMAIN calls : calls[i].module = k
            /\ \A i, j \in DOMAIN calls : i < j => calls[i].module < calls[j].module
            /\ \A i \in DOMAIN calls :
                   /\ calls[i].module \in capable
                   /\ calls[i].failed <=> calls[i].module \in last.failing

\* The first of two modules fails and the second is invoked all the same.
C21_Witness ==
    /\ last.op = "DispatchItem"
    /\ Len(modules) = 2
    /\ last.failing = {1}
    /\ last.calls = <<[module |-> 1, failed |-> TRUE], [module |-> 2, failed |-> FALSE]>>

=============================================================================
